---- MODULE Spec2Model ----
(***************************************************************************)
(* Verification model of the rules engine of the Taiwan Strait simulation. *)
(*                                                                         *)
(* Two objects of the repository are modelled:                             *)
(*   - TurnManager (src/taiwan/src/game/turns.rs): the phase/turn state    *)
(*     machine with its per-phase budgets and its event list;              *)
(*   - Game (src/taiwan/src/game/state.rs): the facade with its units,     *)
(*     roads, supply network, visibility layer, statistics and history.    *)
(* Real numbers of the source (f32/f64) are kept as integers: positions    *)
(* are whole kilometres, conditions and supply levels are hundredths.      *)
(***************************************************************************)
EXTENDS Integers, Sequences, FiniteSets, TLC

\* ------------------------------------------------------------------------
\* Bounds of the model
\* ------------------------------------------------------------------------
\* largest unit_count handed to advance_phase
MaxUnitCount == 3
\* advance_phase and next_turn are not called any more once this turn is
\* reached
MaxTurn == 5
\* the facade takes no further call once its event history is this long
MaxHistory == 2
\* resupply is not called any more once this much supply (thousandths) has
\* been handed out
MaxSupplyConsumed == 1000
\* longest TurnManager event list kept before clear_events must be called
MaxEvents == 2
\* consume_action is called at most this many times beyond the budget a
\* phase was entered with
MaxExtraConsume == 2

\* the events a fight between the units of the game is followed for
MaxFightHistory == 4

\* the calls made on the resolver and the units of one engagement
MaxCombatCalls == 2

\* next_turn is not called any more once a game followed to its turn limit
\* has reached this turn
MaxVictoryTurn == 30

\* the largest whole distance (kilometres) a pair of points is compared
\* with
MaxDistance == 1500

\* the magnitude (thousandths) of hull integrity and morale up to which a
\* unit is still given calls
MaxStat == 50000

\* ------------------------------------------------------------------------
\* Enumerations (src/taiwan/src/game/mod.rs)
\* ------------------------------------------------------------------------
GamePhase == {"Planning", "Movement", "Combat", "Supply", "EndTurn"}

Weather == {"Clear", "Rain", "Storm", "Fog"}

TimeOfDay == {"Dawn", "Day", "Dusk", "Night"}

VARIABLES
    \* --- TurnManager (turns.rs:82-89) ---
    current_turn,      \* TurnManager.current_turn
    current_phase,     \* TurnManager.current_phase: [kind, budget]
    tm_time_of_day,    \* TurnManager.time_of_day
    tm_weather,        \* TurnManager.weather
    events,            \* TurnManager.events
    tm_op,             \* the TurnManager operation called last
    tm_result,         \* what that call returned
    calls,             \* number of advance_phase calls made so far
    last_unit_count,   \* the unit_count of the last advance_phase call
    entered_budget,    \* the action budget the current phase was entered with
    attempts,          \* consume_action calls made in the current phase
    \* --- Game (state.rs:23-60) ---
    turn,              \* Game.turn
    phase,             \* Game.phase
    weather,           \* Game.weather
    time_of_day,       \* Game.time_of_day
    units,             \* Game.land_units / ships / air_units, by unit id
    roads,             \* Game.roads, by road id
    supply_network,    \* Game.supply_network: city id -> connected unit ids
    visibility_map,    \* Game.visibility_map, parallel to the tiles
    statistics,        \* Game.statistics
    event_history,     \* Game.event_history: its length and newest entries
    op,                \* the facade operation called last
    result,            \* what that call returned
    \* --- CombatResolver and the two units handed to it (combat.rs:73-98) ---
    attacker_unit,     \* the unit passed as attacker
    defender_unit,     \* the unit passed as defender
    combat_log,        \* CombatResolver.combat_log
    cr_op,             \* the operation called last on the resolver or a unit
    cr_result,         \* what that call returned
    cr_calls           \* number of such calls made so far

tmVars == <<current_turn, current_phase, tm_time_of_day, tm_weather, events,
            tm_op, tm_result, calls, last_unit_count, entered_budget, attempts>>

\* the fields of Game that the facade operations read and write
gameState == <<turn, phase, weather, time_of_day, units, roads, supply_network,
               visibility_map, statistics, event_history>>

gameVars == <<gameState, op, result>>

\* a CombatResolver and the pair of units of an engagement
combatVars == <<attacker_unit, defender_unit, combat_log, cr_op, cr_result,
                cr_calls>>

vars == <<tmVars, gameVars, combatVars>>

\* ------------------------------------------------------------------------
\* TurnManager (src/taiwan/src/game/turns.rs)
\* ------------------------------------------------------------------------
\* Duration::from_secs(300)
PlanningSecs == 300

\* Phase::new_planning
new_planning == [kind |-> "Planning", budget |-> PlanningSecs]

\* Phase::new_movement
new_movement(unit_count) == [kind |-> "Movement", budget |-> unit_count]

\* Phase::new_combat
new_combat(unit_count) == [kind |-> "Combat", budget |-> unit_count]

\* Phase::new_supply
new_supply(supply_points) == [kind |-> "Supply", budget |-> supply_points]

\* Phase::EndTurn carries no budget
EndTurnPhase == [kind |-> "EndTurn", budget |-> 0]

\* (x as f32).sqrt() as u32: the integer square root
ISqrt(n) == CHOOSE r \in 0..n : r * r <= n /\ (r + 1) * (r + 1) > n

\* calculate_supply_points without the logistics bonus
calculate_supply_points_NoBonus(unit_count) ==
    unit_count * 2

\* calculate_supply_points
calculate_supply_points(unit_count) ==
    LET base_points == unit_count * 2
        bonus_points == ISqrt(unit_count)
    IN  base_points + bonus_points

\* TurnManager::advance_time_of_day, as a function of the old value
advance_time_of_day(t) ==
    CASE t = "Dawn" -> "Day"
      [] t = "Day" -> "Dusk"
      [] t = "Dusk" -> "Night"
      [] t = "Night" -> "Dawn"

\* TurnManager::update_weather: roll is TRUE when the 30% draw succeeds,
\* drawn is the weather the second draw selects; returns the new weather
\* and the events pushed
update_weather(w, roll, drawn) ==
    IF roll /\ drawn # w
    THEN [weather |-> drawn,
          pushed |-> <<[type |-> "WeatherChanged", new_weather |-> drawn]>>]
    ELSE [weather |-> w, pushed |-> <<>>]

\* TurnManager::advance_turn pushing TurnCompleted twice
advance_turn_DoubleEvent(roll, drawn) ==
    LET uw == update_weather(tm_weather, roll, drawn)
        done == [type |-> "TurnCompleted", turn_number |-> current_turn + 1]
    IN  [turn |-> current_turn + 1,
         time_of_day |-> advance_time_of_day(tm_time_of_day),
         weather |-> uw.weather,
         pushed |-> uw.pushed \o <<done, done>>]

\* TurnManager::advance_turn: the new turn, time of day, weather and the
\* events pushed, in the order the code pushes them
advance_turn(roll, drawn) ==
    LET uw == update_weather(tm_weather, roll, drawn)
    IN  [turn |-> current_turn + 1,
         time_of_day |-> advance_time_of_day(tm_time_of_day),
         weather |-> uw.weather,
         pushed |-> uw.pushed \o
                    <<[type |-> "TurnCompleted", turn_number |-> current_turn + 1]>>]

\* the match of advance_phase with the Supply arm lost: Combat ends the turn
next_phase_SkipSupply(from, unit_count) ==
    CASE from.kind = "Planning" -> new_movement(unit_count)
      [] from.kind = "Movement" -> new_combat(unit_count)
      [] from.kind = "Combat" -> EndTurnPhase
      [] from.kind = "Supply" -> EndTurnPhase
      [] from.kind = "EndTurn" -> new_planning

\* the match of advance_phase: the phase entered from the current one
next_phase(from, unit_count) ==
    CASE from.kind = "Planning" -> new_movement(unit_count)
      [] from.kind = "Movement" -> new_combat(unit_count)
      [] from.kind = "Combat" -> new_supply(calculate_supply_points(unit_count))
      [] from.kind = "Supply" -> EndTurnPhase
      [] from.kind = "EndTurn" -> new_planning

\* TurnManager::new
InitTM ==
    /\ current_turn = 1
    /\ current_phase = new_planning
    /\ tm_time_of_day = "Dawn"
    /\ tm_weather = "Clear"
    /\ events = <<>>
    /\ tm_op = "new"
    /\ tm_result = "Ok"
    /\ calls = 0
    /\ last_unit_count = 0
    /\ entered_budget = 0
    /\ attempts = 0

\* TurnManager::advance_phase(unit_count)
advance_phase(unit_count, roll, drawn) ==
    LET new_phase == next_phase(current_phase, unit_count)
        at == advance_turn(roll, drawn)
        ends == current_phase.kind = "EndTurn"
    IN  /\ current_turn < MaxTurn
        /\ Len(events) < MaxEvents
        /\ current_turn' = IF ends THEN at.turn ELSE current_turn
        /\ tm_time_of_day' = IF ends THEN at.time_of_day ELSE tm_time_of_day
        /\ tm_weather' = IF ends THEN at.weather ELSE tm_weather
        /\ current_phase' = new_phase
        /\ events' = events \o (IF ends THEN at.pushed ELSE <<>>) \o
                     <<[type |-> "PhaseChanged", new_phase |-> new_phase]>>
        /\ tm_op' = "advance_phase"
        /\ tm_result' = "Ok"
        /\ calls' = calls + 1
        /\ last_unit_count' = unit_count
        /\ entered_budget' = IF new_phase.kind = "Planning" THEN 0
                             ELSE new_phase.budget
        /\ attempts' = 0
        /\ UNCHANGED <<gameVars, combatVars>>

\* TurnManager::consume_action comparing with >= 0 instead of > 0
consume_action_OffByOne ==
    /\ attempts < entered_budget + MaxExtraConsume
    /\ attempts' = attempts + 1
    /\ tm_op' = "consume_action"
    /\ IF current_phase.kind \in {"Movement", "Combat", "Supply"}
          /\ current_phase.budget >= 0
       THEN /\ current_phase' = [current_phase EXCEPT !.budget = @ - 1]
            /\ tm_result' = "Ok"
       ELSE /\ current_phase' = current_phase
            /\ tm_result' = "PhaseError"
    /\ UNCHANGED <<current_turn, tm_time_of_day, tm_weather, events, calls,
                   last_unit_count, entered_budget>>
    /\ UNCHANGED <<gameVars, combatVars>>

\* TurnManager::consume_action that ends an exhausted phase instead of
\* only refusing
consume_action_EndsPhase ==
    /\ attempts < entered_budget + MaxExtraConsume
    /\ attempts' = attempts + 1
    /\ tm_op' = "consume_action"
    /\ IF current_phase.kind \in {"Movement", "Combat", "Supply"}
          /\ current_phase.budget > 0
       THEN /\ current_phase' = [current_phase EXCEPT !.budget = @ - 1]
            /\ tm_result' = "Ok"
            /\ events' = events
       ELSE /\ current_phase' = current_phase
            /\ tm_result' = "PhaseError"
            /\ events' = IF current_phase.kind = "EndTurn" THEN <<>> ELSE events
    /\ UNCHANGED <<current_turn, tm_time_of_day, tm_weather, calls,
                   last_unit_count, entered_budget>>
    /\ UNCHANGED <<gameVars, combatVars>>

\* TurnManager::consume_action
consume_action ==
    /\ attempts < entered_budget + MaxExtraConsume
    /\ attempts' = attempts + 1
    /\ tm_op' = "consume_action"
    /\ IF current_phase.kind \in {"Movement", "Combat", "Supply"}
          /\ current_phase.budget > 0
       THEN /\ current_phase' = [current_phase EXCEPT !.budget = @ - 1]
            /\ tm_result' = "Ok"
       ELSE /\ current_phase' = current_phase
            /\ tm_result' = "PhaseError"
    /\ UNCHANGED <<current_turn, tm_time_of_day, tm_weather, events, calls,
                   last_unit_count, entered_budget>>
    /\ UNCHANGED <<gameVars, combatVars>>

\* TurnManager::clear_events
clear_events ==
    /\ events' = <<>>
    /\ tm_op' = "clear_events"
    /\ tm_result' = "Ok"
    /\ UNCHANGED <<current_turn, current_phase, tm_time_of_day, tm_weather, calls,
                   last_unit_count, entered_budget, attempts>>
    /\ UNCHANGED <<gameVars, combatVars>>

\* TurnManager::update_planning_time, elapsed seconds since the
\* phase started
update_planning_time(elapsed) ==
    /\ tm_op' = "update_planning_time"
    /\ tm_result' = "Ok"
    /\ current_phase' =
         IF current_phase.kind = "Planning"
         THEN [current_phase EXCEPT
                 !.budget = IF @ > elapsed THEN @ - elapsed ELSE 0]
         ELSE current_phase
    /\ UNCHANGED <<current_turn, tm_time_of_day, tm_weather, events, calls,
                   last_unit_count, entered_budget, attempts>>
    /\ UNCHANGED <<gameVars, combatVars>>

NextTM ==
    \/ \E unit_count \in 0..MaxUnitCount, roll \in BOOLEAN, drawn \in Weather :
          advance_phase(unit_count, roll, drawn)
    \/ consume_action
    \/ clear_events
    \/ \E elapsed \in {0, 120, PlanningSecs} : update_planning_time(elapsed)

\* ------------------------------------------------------------------------
\* Scenario: the entities a game is set up with
\* ------------------------------------------------------------------------
Factions == {"Blue", "Red"}

UnitIds == {1, 2}

\* an id no unit has
NoUnit == 9

CityIds == {1, 2}

RoadIds == {1}

\* an id no road has
NoRoad == 9

\* the cities (Hub fields of City.base, infrastructure/mod.rs:17-24) of the
\* configuration
City ==
    [c \in CityIds |->
        IF c = 1
        THEN [name |-> "Taipei", x |-> 0, y |-> 0, storage |-> 100,
              controller |-> "Blue"]
        ELSE [name |-> "Kaohsiung", x |-> 60, y |-> 0, storage |-> 0,
              controller |-> "Red"]]

\* the tiles of the map: centre and size of each HexTile (tiles.rs:72-81),
\* as TileParameters::generate lays out one row of two hexes of size 50
Tiles ==
    <<[center_x |-> 50, center_y |-> 0, size |-> 50],
      [center_x |-> 150, center_y |-> 0, size |-> 50]>>

\* the fixed attributes of the units: both are LandUnitType::Infantry
\* (land.rs:74-100), training and fatigue in thousandths
UnitSpec ==
    [u \in UnitIds |->
        [kind |-> "Land", unit_type |-> "Infantry",
         faction |-> IF u = 1 THEN "Blue" ELSE "Red",
         training |-> 700, fatigue |-> 0,
         vision_range |-> IF u = 1 THEN 60 ELSE 100,
         max_strength |-> IF u = 1 THEN 10 ELSE 2]]

\* the destinations a move is asked for
Dests == {<<3, 4>>, <<30, 40>>, <<60, 0>>, <<200, 0>>}

\* the positions that cannot be entered
Obstructed == {<<60, 0>>}

\* the damage arguments bomb_road is called with, in thousandths
Damages == {300, 900}

\* lib.rs: DEFAULT_SUPPLY_RANGE (config.max_supply_range of the run)
DEFAULT_SUPPLY_RANGE == 50

\* supply level (thousandths) a move costs per kilometre
MoveSupplyPerKm == 10

\* ------------------------------------------------------------------------
\* Arithmetic helpers
\* ------------------------------------------------------------------------
\* an `as i32` cast of n/d: truncation toward zero
Trunc(n, d) == IF n >= 0 THEN n \div d ELSE -((-n) \div d)

Max(a, b) == IF a >= b THEN a ELSE b

Min(a, b) == IF a <= b THEN a ELSE b

\* (x2-x1)^2 + (y2-y1)^2, the square of calculate_distance
DistSq(x1, y1, x2, y2) == (x2 - x1) * (x2 - x1) + (y2 - y1) * (y2 - y1)

\* the distance along the axes in place of the straight line
calculate_distance_Manhattan(x1, y1, x2, y2) ==
    (IF x2 >= x1 THEN x2 - x1 ELSE x1 - x2)
        + (IF y2 >= y1 THEN y2 - y1 ELSE y1 - y2)

\* calculate_distance (state.rs:631-633), whole kilometres; exact on the
\* positions of the scenario, whose distances are whole numbers
calculate_distance(x1, y1, x2, y2) == ISqrt(DistSq(x1, y1, x2, y2))

\* ------------------------------------------------------------------------
\* Units (src/taiwan/src/units/land.rs)
\* ------------------------------------------------------------------------
UnitStatus == {"Active", "Entrenched", "Disabled", "Retreating", "Destroyed"}

\* LandUnit::new for Infantry, placed and equipped by the scenario
NewUnit(u, x, y, ammunition) ==
    [x |-> x, y |-> y,
     strength |-> UnitSpec[u].max_strength,
     morale |-> 1000, supply_level |-> 1000,
     status |-> "Active", entrenchment |-> 0,
     ammunition |-> ammunition, fuel |-> 0, supplies |-> 0]

\* LandUnit::calculate_combat_effectiveness, thousandths
calculate_combat_effectiveness(unit) ==
    LET morale_factor == unit.morale
        supply_factor == unit.supply_level
        entrenchment_factor == 1000 + unit.entrenchment \div 2
    IN  (((morale_factor * supply_factor) \div 1000) * entrenchment_factor) \div 1000

\* LandUnit::calculate_damage of Infantry against a target, thousandths
calculate_damage(unit, target) ==
    LET dsq == DistSq(unit.x, unit.y, target.x, target.y)
        base_damage == IF dsq <= 5 * 5 THEN 400
                       ELSE IF dsq <= 20 * 20 THEN 200
                       ELSE 100
    IN  (base_damage * calculate_combat_effectiveness(unit)) \div 1000

\* MilitaryUnit::can_attack of LandUnit (Infantry: close combat range)
unit_can_attack(unit, target) ==
    IF unit.supply_level < 100 \/ unit.ammunition = 0
    THEN FALSE
    ELSE DistSq(unit.x, unit.y, target.x, target.y) <= 5 * 5

\* MilitaryUnit::receive_damage of LandUnit, damage in thousandths
receive_damage(unit, damage) ==
    LET strength == Trunc(unit.strength * (1000 - damage), 1000)
        status == IF strength <= 0 THEN "Destroyed"
                  ELSE IF strength < Trunc(strength, 4) THEN "Disabled"
                  ELSE unit.status
    IN  [unit EXCEPT !.strength = strength,
                     !.status = status,
                     !.morale = Trunc(@ * (1000 - damage \div 2), 1000)]

\* Movable::move_to of LandUnit
move_to(unit, x, y) ==
    [unit EXCEPT !.x = x, !.y = y, !.entrenchment = 0]

\* Movable::get_speed of LandUnit (Infantry 6.44), hundredths
get_speed(unit) ==
    LET base_speed == 644
        supply_modifier == IF unit.supply_level < 500 THEN 700 ELSE 1000
    IN  (base_speed * supply_modifier) \div 1000

\* Movable::get_range: the 24-hour range, hundredths of a kilometre
get_range(unit) == get_speed(unit) * 24

\* the range can_attack of the facade allows: the reach of the unit type
get_attack_range(unit) == 5

\* set_position of the second move_unit
set_position(unit, destination) ==
    [unit EXCEPT !.x = destination[1], !.y = destination[2]]

\* Maintainable::repair of a land unit: repair_points (thousandths) are
\* added to the strength, which does not pass the unit's full strength
repair(u, unit, repair_points) ==
    [unit EXCEPT !.strength =
        Min(@ + Trunc(repair_points, 1000), UnitSpec[u].max_strength)]

\* Maintainable::resupply: the package is added to the arsenal; fuel is
\* kept in thousandths
resupply(unit, supplies) ==
    [unit EXCEPT !.ammunition = @ + supplies.ammunition,
                 !.fuel = @ + supplies.fuel,
                 !.supplies = @ + supplies.supplies]

\* ------------------------------------------------------------------------
\* Game: helpers (src/taiwan/src/game/state.rs)
\* ------------------------------------------------------------------------
\* BoundingBox::from_points
from_points(x1, y1, x2, y2) ==
    [min_x |-> Min(x1, x2), min_y |-> Min(y1, y2),
     max_x |-> Max(x1, x2), max_y |-> Max(y1, y2)]

\* BoundingBox::intersects
intersects(a, b) ==
    /\ a.min_x <= b.max_x
    /\ a.max_x >= b.min_x
    /\ a.min_y <= b.max_y
    /\ a.max_y >= b.min_y

\* BoundingBox::contains_with_buffer
contains_with_buffer(b, x, y, buffer) ==
    /\ x >= b.min_x - buffer
    /\ x <= b.max_x + buffer
    /\ y >= b.min_y - buffer
    /\ y <= b.max_y + buffer

\* Game::get_roads_between: the ids of the roads whose bounding box
\* intersects the one of the path
get_roads_between(rs, start_x, start_y, end_x, end_y) ==
    LET path_bbox == from_points(start_x, start_y, end_x, end_y)
    IN  {r \in DOMAIN rs :
            /\ rs[r].start_city \in CityIds
            /\ rs[r].end_city \in CityIds
            /\ intersects(path_bbox,
                          from_points(City[rs[r].start_city].x,
                                      City[rs[r].start_city].y,
                                      City[rs[r].end_city].x,
                                      City[rs[r].end_city].y))}

\* Game::get_enemy_units_between: the ids of the units within 50 km of the
\* bounding box of the path
get_enemy_units_between(us, start_x, start_y, end_x, end_y) ==
    LET path_bbox == from_points(start_x, start_y, end_x, end_y)
        buffer_distance == 50
    IN  {u \in DOMAIN us :
            contains_with_buffer(path_bbox, us[u].x, us[u].y, buffer_distance)}

\* Game::can_block_supply
can_block_supply(unit) == unit.status \in {"Active", "Entrenched"}

\* the supply line test with the mines left out: only the condition of the
\* roads along the route is read
is_supply_line_clear_IgnoresMines(us, rs, city_id, unit_id) ==
    IF city_id \in CityIds /\ unit_id \in DOMAIN us
    THEN LET city == City[city_id]
             unit == us[unit_id]
         IN  /\ \A r \in get_roads_between(rs, city.x, city.y, unit.x, unit.y) :
                    ~(rs[r].condition < 200)
             /\ \A e \in get_enemy_units_between(us, city.x, city.y,
                                                 unit.x, unit.y) :
                    ~can_block_supply(us[e])
    ELSE FALSE

\* Game::is_supply_line_clear
is_supply_line_clear(us, rs, city_id, unit_id) ==
    IF city_id \in CityIds /\ unit_id \in DOMAIN us
    THEN LET city == City[city_id]
             unit == us[unit_id]
         IN  /\ \A r \in get_roads_between(rs, city.x, city.y, unit.x, unit.y) :
                    ~(rs[r].is_mined \/ rs[r].condition < 200)
             /\ \A e \in get_enemy_units_between(us, city.x, city.y,
                                                 unit.x, unit.y) :
                    ~can_block_supply(us[e])
    ELSE FALSE

\* Game::can_supply_unit
can_supply_unit(us, rs, city_id, unit_id) ==
    IF city_id \in CityIds /\ unit_id \in DOMAIN us
    THEN IF DistSq(City[city_id].x, City[city_id].y,
                   us[unit_id].x, us[unit_id].y)
              > DEFAULT_SUPPLY_RANGE * DEFAULT_SUPPLY_RANGE
         THEN FALSE
         ELSE is_supply_line_clear(us, rs, city_id, unit_id)
    ELSE FALSE

\* the network extended with the units that can be supplied now, the
\* entries it held before left in place
update_supply_network_Incremental(us, rs) ==
    [city_id \in CityIds |->
        (IF city_id \in DOMAIN supply_network
         THEN supply_network[city_id] ELSE {})
        \cup {unit_id \in DOMAIN us : can_supply_unit(us, rs, city_id, unit_id)}]

\* Game::update_supply_network: the network rebuilt from units and roads
update_supply_network(us, rs) ==
    [city_id \in CityIds |->
        {unit_id \in DOMAIN us : can_supply_unit(us, rs, city_id, unit_id)}]

\* the weather factor of calculate_vision_range, tenths
vision_weather_modifier(w) ==
    CASE w = "Clear" -> 10
      [] w = "Rain" -> 7
      [] w = "Storm" -> 4
      [] w = "Fog" -> 3

\* the time-of-day factor of calculate_vision_range, tenths
vision_time_modifier(t) ==
    CASE t = "Day" -> 10
      [] t \in {"Dawn", "Dusk"} -> 7
      [] t = "Night" -> 4

\* Game::calculate_vision_range, hundredths of a kilometre
calculate_vision_range(u, w, t) ==
    UnitSpec[u].vision_range * vision_weather_modifier(w) * vision_time_modifier(t)

\* Game::get_tiles_in_range, range in hundredths of a kilometre
get_tiles_in_range(x, y, range) ==
    {index \in DOMAIN Tiles :
        DistSq(x, y, Tiles[index].center_x, Tiles[index].center_y) * 10000
            <= range * range}

\* Game::update_visibility: the layer rebuilt from the units, the weather
\* and the time of day
update_visibility(us, w, t) ==
    [index \in DOMAIN Tiles |->
        \E u \in DOMAIN us :
            index \in get_tiles_in_range(us[u].x, us[u].y,
                                         calculate_vision_range(u, w, t))]

\* the rotation with the night left out
next_time_of_day_SkipsNight(t) ==
    CASE t = "Dawn" -> "Day"
      [] t = "Day" -> "Dusk"
      [] t = "Dusk" -> "Dawn"
      [] t = "Night" -> "Dawn"

\* the match of Game::next_turn on time_of_day
next_time_of_day(t) ==
    CASE t = "Dawn" -> "Day"
      [] t = "Day" -> "Dusk"
      [] t = "Dusk" -> "Night"
      [] t = "Night" -> "Dawn"

\* GameEnvironment::get_terrain_at: the tiles containing the point
\* (HexTile::contains_point); empty when the point is off the map
get_terrain_at(x, y) ==
    {index \in DOMAIN Tiles :
        DistSq(x, y, Tiles[index].center_x, Tiles[index].center_y)
            <= Tiles[index].size * Tiles[index].size}

\* the obstruction test of can_move_to
is_obstructed(destination) == destination \in Obstructed

\* GameQueries::can_move_to
can_move_to(unit_id, x, y) ==
    IF unit_id \in DOMAIN units
    THEN LET unit == units[unit_id]
             destination == <<x, y>>
         IN  /\ DistSq(unit.x, unit.y, x, y) * 10000
                    <= get_range(unit) * get_range(unit)
             /\ ~is_obstructed(destination)
    ELSE FALSE

\* GameQueries::can_attack
can_attack(attacker_id, defender_id) ==
    IF attacker_id \in DOMAIN units /\ defender_id \in DOMAIN units
    THEN LET attacker == units[attacker_id]
             defender == units[defender_id]
         IN  /\ DistSq(attacker.x, attacker.y, defender.x, defender.y)
                    <= get_attack_range(attacker) * get_attack_range(attacker)
             /\ unit_can_attack(attacker, defender)
    ELSE FALSE

\* GameQueries::get_unit: the record of the unit, none when the id is in
\* none of the unit maps
get_unit(unit_id) ==
    IF unit_id \in DOMAIN units THEN {units[unit_id]} ELSE {}

\* GameQueries::get_units_in_range: the ids of the units within range
\* (kilometres) of the point
get_units_in_range(x, y, range) ==
    {id \in DOMAIN units :
        DistSq(x, y, units[id].x, units[id].y) <= range * range}

\* the supply a move of the given distance costs, thousandths
calculate_movement_supply_cost(unit, distance) == MoveSupplyPerKm * distance

\* the unit after the supply of a move has been taken from it
consume_movement_supply(unit, supply_cost) ==
    [unit EXCEPT !.supply_level = @ - supply_cost]

\* Game::find_nearest_supply_source: the cities min_by_key may return (the
\* map's iteration order decides between equal keys); empty when no city
\* has storage
find_nearest_supply_source(unit_id) ==
    LET unit == units[unit_id]
        key(c) == calculate_distance(unit.x, unit.y, City[c].x, City[c].y) * 100
        stocked == {c \in CityIds : City[c].storage > 0}
    IN  {c \in stocked : \A d \in stocked : key(c) <= key(d)}

\* the weather factor of calculate_supply_amount, tenths
supply_weather_modifier(w) ==
    CASE w = "Clear" -> 10
      [] w = "Rain" -> 8
      [] w = "Storm" -> 5
      [] w = "Fog" -> 7

\* Game::calculate_supply_amount, thousandths
calculate_supply_amount(unit_id, source_id) ==
    IF unit_id \notin DOMAIN units THEN 0
    ELSE IF source_id \notin CityIds THEN 0
    ELSE LET unit == units[unit_id]
             source == City[source_id]
             distance == calculate_distance(unit.x, unit.y, source.x, source.y)
             base_amount == source.storage * 10
             amount == Trunc(base_amount * (1000 - distance), 1000)
         IN  Trunc(amount * supply_weather_modifier(weather), 10)

\* the supply package resupply_unit builds from the amount; fuel in
\* thousandths
supply_package(supply_amount) ==
    [ammunition |-> Trunc(supply_amount * 100, 1000),
     fuel |-> supply_amount * 50,
     supplies |-> Trunc(supply_amount * 75, 1000)]

\* ------------------------------------------------------------------------
\* CombatResolver (src/taiwan/src/game/combat.rs), thousandths
\* ------------------------------------------------------------------------
\* CombatResolver::validate_combat
validate_combat(attacker, defender) ==
    IF attacker.status # "Active" \/ defender.status # "Active" THEN FALSE
    ELSE IF attacker.ammunition <= 0 THEN FALSE
    ELSE IF ~unit_can_attack(attacker, defender) THEN FALSE
    ELSE TRUE

\* CombatResolver::calculate_attack_power with the default modifiers
calculate_attack_power(a, attacker, defender) ==
    LET base_power == calculate_damage(attacker, defender)
    IN  (((((base_power * attacker.morale) \div 1000)
            * UnitSpec[a].training) \div 1000)
            * (1000 - UnitSpec[a].fatigue)) \div 1000

\* CombatResolver::calculate_defense_power with the default modifiers and a
\* terrain defence multiplier of 1.0
calculate_defense_power(d, defender) ==
    LET base_defense == CASE defender.status = "Entrenched" -> 1500
                          [] defender.status = "Active" -> 1000
                          [] OTHER -> 700
    IN  (((base_defense * UnitSpec[d].training) \div 1000)
            * (1000 - UnitSpec[d].fatigue)) \div 1000

\* CombatResolver::resolve_strike: the two damages, given the two rolls
resolve_strike(attack_power, defense_power, att_hits, def_hits) ==
    [att_damage |-> IF att_hits
                    THEN (attack_power * (1000 - Min(defense_power, 800))) \div 1000
                    ELSE 0,
     def_damage |-> IF def_hits
                    THEN (((defense_power * 500) \div 1000)
                            * (1000 - Min(attack_power, 800))) \div 1000
                    ELSE 0]

\* the events apply_damage logs for a unit after its damage
apply_damage_events(unit) ==
    CASE unit.status = "Destroyed" ->
            <<[type |-> "Combat", event |-> "UnitDestroyed"]>>
      [] unit.status = "Retreating" ->
            <<[type |-> "Combat", event |-> "UnitRetreated"]>>
      [] OTHER -> <<>>

\* CombatResolver::resolve_combat on two valid units: the units after the
\* exchange, the attacker's damage and the events of the result
resolve_combat(us, a, d, att_hits, def_hits) ==
    LET attack_power == calculate_attack_power(a, us[a], us[d])
        defense_power == calculate_defense_power(d, us[d])
        strike == resolve_strike(attack_power, defense_power, att_hits, def_hits)
        hit_a == IF att_hits
                 THEN <<[type |-> "Combat", event |-> "Hit",
                         damage |-> strike.att_damage]>>
                 ELSE <<>>
        hit_d == IF def_hits
                 THEN <<[type |-> "Combat", event |-> "Hit",
                         damage |-> strike.def_damage]>>
                 ELSE <<>>
        us1 == [us EXCEPT ![a] = receive_damage(@, strike.def_damage)]
        us2 == [us1 EXCEPT ![d] = receive_damage(@, strike.att_damage)]
        disrupted == IF calculate_damage(us2[a], us2[d]) > 500
                     THEN <<[type |-> "Combat", event |-> "SupplyDisrupted"]>>
                     ELSE <<>>
    IN  [units |-> us2,
         attacker_damage_dealt |-> strike.att_damage,
         combat_events |-> hit_a \o hit_d \o apply_damage_events(us1[a])
                           \o apply_damage_events(us2[d]) \o disrupted]

\* ------------------------------------------------------------------------
\* Game: construction and operations (src/taiwan/src/game/state.rs)
\* ------------------------------------------------------------------------
\* the fields Game::new sets, with the entities of the scenario in place of
\* the empty maps, and the game standing in phase p
InitGameIn(p) ==
    /\ turn = 1
    /\ phase = p
    /\ weather = "Clear"
    /\ time_of_day = "Dawn"
    /\ units = [u \in UnitIds |->
                    IF u = 1 THEN NewUnit(u, 0, 0, 10) ELSE NewUnit(u, 3, 4, 0)]
    /\ roads = [r \in RoadIds |->
                    [start_city |-> 1, end_city |-> 2, condition |-> 1000,
                     is_mined |-> FALSE]]
    /\ supply_network = [c \in {} |-> {}]
    /\ visibility_map = <<>>
    /\ statistics = [units_lost |-> [f \in Factions |-> 0],
                     damage_dealt |-> [u \in UnitIds |-> 0],
                     supply_consumed |-> 0]
    /\ event_history = [len |-> 0, recent |-> <<>>]
    /\ op = "new"
    /\ result = "Ok"

\* Game::new
InitGameIdle == InitGameIn("Planning")

\* a game set up in any of the phases
InitGame == \E p \in GamePhase : InitGameIn(p)

\* what a call returns
Ret(o, r) == op' = o /\ result' = r

\* a call that returns an error before anything is written
Fail(o, r) == Ret(o, r) /\ UNCHANGED gameState

\* Game::emit_event for each event of one call, in order (no listener is
\* registered).  The history only ever grows and no operation reads it
\* back, so it is kept as its length and the entries the last emitting
\* call pushed.
emit_events(history, pushed) ==
    IF pushed = <<>> THEN history
    ELSE [len |-> history.len + Len(pushed), recent |-> pushed]

\* the exploration bound the next-state relations put on the facade calls
Open == event_history.len < MaxHistory

\* the exploration bound the next-state relations put on next_turn
TurnOpen == turn < MaxTurn

\* Game::next_turn; roll is the 30% draw, drawn the weather of the second
next_turn(roll, drawn) ==
    /\ supply_network' = update_supply_network(units, roads)
    /\ visibility_map' = update_visibility(units, weather, time_of_day)
    /\ time_of_day' = next_time_of_day(time_of_day)
    /\ weather' = IF roll THEN drawn ELSE weather
    /\ turn' = turn + 1
    /\ phase' = "Planning"
    /\ event_history' = emit_events(event_history,
                            <<[type |-> "TurnCompleted", turn_number |-> turn + 1]>>)
    /\ Ret("next_turn", "Ok")
    /\ UNCHANGED <<units, roads, statistics>>
    /\ UNCHANGED <<tmVars, combatVars>>

\* the first GameActions::move_unit (state.rs:348-382)
move_unit_a(unit_id, x, y) ==
    /\ UNCHANGED <<tmVars, combatVars>>
    /\ IF phase # "Movement" THEN Fail("move_unit", "PhaseError")
       ELSE IF ~can_move_to(unit_id, x, y) THEN Fail("move_unit", "InvalidMove")
       ELSE LET unit == units[unit_id]
                distance == calculate_distance(unit.x, unit.y, x, y)
                supply_cost == calculate_movement_supply_cost(unit, distance)
            IN  IF unit.supply_level < supply_cost
                THEN Fail("move_unit", "InsufficientSupplies")
                ELSE /\ units' = [units EXCEPT ![unit_id] =
                            consume_movement_supply(move_to(@, x, y), supply_cost)]
                     /\ event_history' = emit_events(event_history,
                            <<[type |-> "UnitMoved", unit_id |-> unit_id,
                             x |-> x, y |-> y]>>)
                     /\ Ret("move_unit", "Ok")
                     /\ UNCHANGED <<turn, phase, weather, time_of_day, roads,
                                    supply_network, visibility_map, statistics>>

\* move_unit writing the position before the destination is validated
move_unit_b_MovesFirst(unit_id, x, y) ==
    /\ UNCHANGED <<tmVars, combatVars>>
    /\ IF phase # "Movement" THEN Fail("move_unit", "PhaseError")
       ELSE IF unit_id \notin DOMAIN units THEN Fail("move_unit", "UnitNotFound")
       ELSE IF units[unit_id].status = "Destroyed"
            THEN Fail("move_unit", "UnitError")
       ELSE /\ units' = [units EXCEPT ![unit_id] = set_position(@, <<x, y>>)]
            /\ UNCHANGED <<turn, phase, weather, time_of_day, roads,
                           supply_network, visibility_map, statistics>>
            /\ IF ~can_move_to(unit_id, x, y)
               THEN /\ Ret("move_unit", "InvalidMovement")
                    /\ UNCHANGED event_history
               ELSE /\ event_history' = emit_events(event_history,
                          <<[type |-> "UnitMoved", unit_id |-> unit_id,
                             x |-> x, y |-> y]>>)
                    /\ Ret("move_unit", "Ok")

\* the second GameActions::move_unit (state.rs:838-866)
move_unit_b(unit_id, x, y) ==
    /\ UNCHANGED <<tmVars, combatVars>>
    /\ IF phase # "Movement" THEN Fail("move_unit", "PhaseError")
       ELSE IF unit_id \notin DOMAIN units THEN Fail("move_unit", "UnitNotFound")
       ELSE IF units[unit_id].status = "Destroyed"
            THEN Fail("move_unit", "UnitError")
       ELSE IF ~can_move_to(unit_id, x, y)
            THEN Fail("move_unit", "InvalidMovement")
       ELSE /\ units' = [units EXCEPT ![unit_id] = set_position(@, <<x, y>>)]
            /\ event_history' = emit_events(event_history,
                    <<[type |-> "UnitMoved", unit_id |-> unit_id, x |-> x, y |-> y]>>)
            /\ Ret("move_unit", "Ok")
            /\ UNCHANGED <<turn, phase, weather, time_of_day, roads,
                           supply_network, visibility_map, statistics>>

\* the first GameActions::attack_unit (state.rs:384-428), which hands the
\* two units to the CombatResolver
attack_unit_a(attacker_id, defender_id, att_hits, def_hits) ==
    /\ UNCHANGED <<tmVars, combatVars>>
    /\ IF phase # "Combat" THEN Fail("attack_unit", "PhaseError")
       ELSE IF ~can_attack(attacker_id, defender_id)
            THEN Fail("attack_unit", "InvalidAttack")
       ELSE IF get_terrain_at(units[defender_id].x, units[defender_id].y) = {}
            THEN Fail("attack_unit", "InvalidMove")
       ELSE IF ~validate_combat(units[attacker_id], units[defender_id])
            THEN Fail("attack_unit", "InvalidAttack")
       ELSE LET combat_result == resolve_combat(units, attacker_id, defender_id,
                                                att_hits, def_hits)
            IN  /\ units' = combat_result.units
                /\ statistics' = [statistics EXCEPT
                        !.damage_dealt[attacker_id] =
                            @ + combat_result.attacker_damage_dealt]
                /\ event_history' = emit_events(event_history,
                                                combat_result.combat_events)
                /\ Ret("attack_unit", "Ok")
                /\ UNCHANGED <<turn, phase, weather, time_of_day, roads,
                               supply_network, visibility_map>>

\* the second GameActions::attack_unit (state.rs:722-761)
attack_unit_b(attacker_id, defender_id) ==
    /\ UNCHANGED <<tmVars, combatVars>>
    /\ IF phase # "Combat" THEN Fail("attack_unit", "PhaseError")
       ELSE IF ~can_attack(attacker_id, defender_id)
            THEN Fail("attack_unit", "InvalidAttack")
       ELSE LET damage == calculate_damage(units[attacker_id], units[defender_id])
                defender == receive_damage(units[defender_id], damage)
                destroyed == defender.status = "Destroyed"
                faction == UnitSpec[defender_id].faction
            IN  /\ units' = [units EXCEPT ![defender_id] = defender]
                /\ statistics' =
                     IF destroyed
                     THEN [statistics EXCEPT !.units_lost[faction] = @ + 1]
                     ELSE statistics
                /\ event_history' = emit_events(event_history,
                     (IF destroyed
                      THEN <<[type |-> "UnitDestroyed", unit_id |-> defender_id]>>
                      ELSE <<>>)
                     \o <<[type |-> "UnitAttacked", attacker_id |-> attacker_id,
                           defender_id |-> defender_id, damage |-> damage]>>)
                /\ Ret("attack_unit", "Ok")
                /\ UNCHANGED <<turn, phase, weather, time_of_day, roads,
                               supply_network, visibility_map>>

\* the first GameActions::repair_unit (state.rs:430-468)
repair_unit_a(unit_id) ==
    /\ UNCHANGED <<tmVars, combatVars>>
    /\ IF unit_id \notin DOMAIN units THEN Fail("repair_unit", "UnitNotFound")
       ELSE LET unit == units[unit_id]
                can_repair ==
                    \E c \in CityIds :
                        DistSq(unit.x, unit.y, City[c].x, City[c].y)
                            < DEFAULT_SUPPLY_RANGE * DEFAULT_SUPPLY_RANGE
                supply_level == unit.supply_level
                repair_points == 20 * supply_level
            IN  IF ~can_repair THEN Fail("repair_unit", "InvalidMove")
                ELSE IF supply_level < 500
                     THEN Fail("repair_unit", "InsufficientSupplies")
                ELSE /\ units' = [units EXCEPT ![unit_id] =
                                    repair(unit_id, @, repair_points)]
                     /\ event_history' = emit_events(event_history,
                            <<[type |-> "UnitRepaired", unit_id |-> unit_id]>>)
                     /\ Ret("repair_unit", "Ok")
                     /\ UNCHANGED <<turn, phase, weather, time_of_day, roads,
                                    supply_network, visibility_map, statistics>>

\* repair_unit repairing whatever the supply_level of the unit is
repair_unit_b_AnySupply(unit_id) ==
    /\ UNCHANGED <<tmVars, combatVars>>
    /\ IF unit_id \notin DOMAIN units THEN Fail("repair_unit", "UnitNotFound")
       ELSE IF units[unit_id].status = "Destroyed"
            THEN Fail("repair_unit", "UnitError")
       ELSE /\ units' = [units EXCEPT ![unit_id] =
                            repair(unit_id, @, 20 * @.supply_level)]
            /\ Ret("repair_unit", "Ok")
            /\ UNCHANGED <<turn, phase, weather, time_of_day, roads,
                           supply_network, visibility_map, statistics,
                           event_history>>

\* the second GameActions::repair_unit (state.rs:763-782)
repair_unit_b(unit_id) ==
    /\ UNCHANGED <<tmVars, combatVars>>
    /\ IF unit_id \notin DOMAIN units THEN Fail("repair_unit", "UnitNotFound")
       ELSE IF units[unit_id].status = "Destroyed"
            THEN Fail("repair_unit", "UnitError")
       ELSE LET supply_level == units[unit_id].supply_level
                repair_points == 20 * supply_level
            IN  IF supply_level < 500
                THEN Fail("repair_unit", "InsufficientSupplies")
                ELSE /\ units' = [units EXCEPT ![unit_id] =
                                    repair(unit_id, @, repair_points)]
                     /\ Ret("repair_unit", "Ok")
                     /\ UNCHANGED <<turn, phase, weather, time_of_day, roads,
                                    supply_network, visibility_map, statistics,
                                    event_history>>

\* the first GameActions::resupply_unit (state.rs:470-504)
resupply_unit_a(unit_id) ==
    /\ statistics.supply_consumed < MaxSupplyConsumed
    /\ UNCHANGED <<tmVars, combatVars>>
    /\ IF phase # "Supply" THEN Fail("resupply_unit", "PhaseError")
       ELSE IF unit_id \notin DOMAIN units
            THEN Fail("resupply_unit", "UnitNotFound")
       ELSE IF find_nearest_supply_source(unit_id) = {}
            THEN Fail("resupply_unit", "InsufficientSupplies")
       ELSE \E nearest_source \in find_nearest_supply_source(unit_id) :
            LET supply_amount == calculate_supply_amount(unit_id, nearest_source)
            IN  /\ units' = [units EXCEPT ![unit_id] =
                                resupply(@, supply_package(supply_amount))]
                /\ statistics' = [statistics EXCEPT
                                    !.supply_consumed = @ + supply_amount]
                /\ event_history' = emit_events(event_history,
                        <<[type |-> "UnitResupplied", unit_id |-> unit_id,
                         amount |-> supply_amount]>>)
                /\ Ret("resupply_unit", "Ok")
                /\ UNCHANGED <<turn, phase, weather, time_of_day, roads,
                               supply_network, visibility_map>>

\* the second GameActions::resupply_unit (state.rs:784-806)
resupply_unit_b(unit_id) ==
    /\ statistics.supply_consumed < MaxSupplyConsumed
    /\ UNCHANGED <<tmVars, combatVars>>
    /\ IF unit_id \notin DOMAIN units THEN Fail("resupply_unit", "UnitNotFound")
       ELSE IF find_nearest_supply_source(unit_id) = {}
            THEN Fail("resupply_unit", "InsufficientSupplies")
       ELSE \E nearest_source \in find_nearest_supply_source(unit_id) :
            LET supply_amount == calculate_supply_amount(unit_id, nearest_source)
            IN  /\ units' = [units EXCEPT ![unit_id] =
                                resupply(@, supply_package(supply_amount))]
                /\ statistics' = [statistics EXCEPT
                                    !.supply_consumed = @ + supply_amount]
                /\ Ret("resupply_unit", "Ok")
                /\ UNCHANGED <<turn, phase, weather, time_of_day, roads,
                               supply_network, visibility_map, event_history>>

\* GameActions::bomb_road (state.rs:808-825, the same text as 506-524);
\* damage in thousandths
bomb_road(road_id, damage) ==
    /\ UNCHANGED <<tmVars, combatVars>>
    /\ IF road_id \notin DOMAIN roads THEN Fail("bomb_road", "RoadNotFound")
       ELSE LET condition == Max(roads[road_id].condition - damage, 0)
                bombed == [roads EXCEPT ![road_id].condition = condition]
            IN  /\ roads' = bombed
                /\ event_history' = emit_events(event_history,
                        <<[type |-> "RoadDamaged", road_id |-> road_id,
                         damage |-> damage]>>)
                /\ supply_network' =
                     IF condition < 200
                     THEN update_supply_network(units, bombed)
                     ELSE supply_network
                /\ Ret("bomb_road", "Ok")
                /\ UNCHANGED <<turn, phase, weather, time_of_day, units,
                               visibility_map, statistics>>

\* the first GameActions::mine_road (state.rs:526-538)
mine_road_a(road_id) ==
    /\ UNCHANGED <<tmVars, combatVars>>
    /\ IF road_id \notin DOMAIN roads THEN Fail("mine_road", "RoadNotFound")
       ELSE LET mined == [roads EXCEPT ![road_id].is_mined = TRUE]
            IN  /\ roads' = mined
                /\ supply_network' = update_supply_network(units, mined)
                /\ event_history' = emit_events(event_history,
                        <<[type |-> "RoadMined", road_id |-> road_id]>>)
                /\ Ret("mine_road", "Ok")
                /\ UNCHANGED <<turn, phase, weather, time_of_day, units,
                               visibility_map, statistics>>

\* the second GameActions::mine_road (state.rs:827-837)
mine_road_b(road_id) ==
    /\ UNCHANGED <<tmVars, combatVars>>
    /\ IF road_id \notin DOMAIN roads THEN Fail("mine_road", "RoadNotFound")
       ELSE LET mined == [roads EXCEPT ![road_id].is_mined = TRUE]
            IN  /\ roads' = mined
                /\ supply_network' = update_supply_network(units, mined)
                /\ Ret("mine_road", "Ok")
                /\ UNCHANGED <<turn, phase, weather, time_of_day, units,
                               visibility_map, statistics, event_history>>

\* the unit ids a call is made with
UnitArgs == UnitIds \cup {NoUnit}

\* the road ids a call is made with
RoadArgs == RoadIds \cup {NoRoad}

NextGame ==
    \/ \E roll \in BOOLEAN, drawn \in Weather :
          Open /\ TurnOpen /\ next_turn(roll, drawn)
    \/ \E u \in UnitArgs, d \in Dests : Open /\ move_unit_a(u, d[1], d[2])
    \/ \E u \in UnitArgs, d \in Dests : Open /\ move_unit_b(u, d[1], d[2])
    \/ \E a \in UnitArgs, d \in UnitArgs, ah \in BOOLEAN, dh \in BOOLEAN :
          Open /\ attack_unit_a(a, d, ah, dh)
    \/ \E a \in UnitArgs, d \in UnitArgs : Open /\ attack_unit_b(a, d)
    \/ \E u \in UnitArgs : Open /\ repair_unit_a(u)
    \/ \E u \in UnitArgs : Open /\ repair_unit_b(u)
    \/ \E u \in UnitArgs : Open /\ resupply_unit_a(u)
    \/ \E u \in UnitArgs : Open /\ resupply_unit_b(u)
    \/ \E r \in RoadArgs, dmg \in Damages : Open /\ bomb_road(r, dmg)
    \/ \E r \in RoadArgs : Open /\ mine_road_a(r)
    \/ \E r \in RoadArgs : Open /\ mine_road_b(r)

\* a TurnManager and a Game side by side, as a caller holds them: the
\* caller advances the phases with the number of units of the game and
\* issues the orders of the phase
NextSys ==
    \/ \E roll \in BOOLEAN, drawn \in Weather :
          advance_phase(Cardinality(UnitIds), roll, drawn)
    \/ consume_action
    \/ \E u \in UnitIds, d \in Dests : Open /\ move_unit_b(u, d[1], d[2])
    \/ \E a \in UnitIds, d \in UnitIds : Open /\ attack_unit_b(a, d)
    \/ \E u \in UnitIds : Open /\ resupply_unit_a(u)

\* a TurnManager and a Game side by side over several turns: the caller
\* advances the phases, drains the events and ends the turns of the game
NextDay ==
    \/ \E roll \in BOOLEAN, drawn \in Weather :
          advance_phase(Cardinality(UnitIds), roll, drawn)
    \/ clear_events
    \/ \E roll \in BOOLEAN, drawn \in Weather :
          TurnOpen /\ next_turn(roll, drawn)
    \/ \E r \in RoadArgs : Open /\ mine_road_a(r)

\* the exploration bound of a fight
FightOpen == event_history.len < MaxFightHistory

\* a fight between the units of the game: orders to move, attack, repair
\* and resupply them
NextFight ==
    \/ \E u \in UnitIds, d \in Dests : FightOpen /\ move_unit_b(u, d[1], d[2])
    \/ \E a \in UnitIds, d \in UnitIds : FightOpen /\ attack_unit_b(a, d)
    \/ \E u \in UnitIds : FightOpen /\ repair_unit_a(u)
    \/ \E u \in UnitIds : FightOpen /\ repair_unit_b(u)
    \/ \E u \in UnitIds : FightOpen /\ resupply_unit_b(u)

\* ------------------------------------------------------------------------
\* Units of every kind (src/taiwan/src/units/land.rs, sea.rs, air.rs)
\* ------------------------------------------------------------------------
\* the kinds of unit an engagement is fought between: an Infantry LandUnit,
\* a Destroyer, a fifth-generation FighterSquadron and a non-stealth
\* BomberSquadron
UnitKinds == {"Infantry", "Destroyer", "Fighter", "Bomber"}

\* UnitStats of the constructors: strength, and training and fatigue in
\* thousandths (the Infantry is raised with the strength of unit 1)
KindStats(kind) ==
    CASE kind = "Infantry" -> [strength |-> 10, training |-> 700, fatigue |-> 0]
      [] kind = "Destroyer" -> [strength |-> 100, training |-> 800, fatigue |-> 0]
      [] kind = "Fighter" -> [strength |-> 24, training |-> 800, fatigue |-> 0]
      [] kind = "Bomber" -> [strength |-> 12, training |-> 800, fatigue |-> 0]

\* ShipCapabilities of a Destroyer: ranges in kilometres, damages in whole
\* points, missile_defense in thousandths
DestroyerCapabilities ==
    [missile_defense |-> 700, gun_range |-> 20, gun_damage |-> 50,
     torpedo_range |-> 15, torpedo_damage |-> 80,
     aa_range |-> 10, aa_ceiling |-> 10000]

\* FighterSquadron::new for FighterGeneration::Fifth, thousandths
FifthGeneration ==
    [stealth |-> 900, air_to_air |-> 1000, air_to_ground |-> 800,
     generation_bonus |-> 1300, combat_radius |-> 1000,
     service_ceiling |-> 15000]

\* BomberSquadron::new for BomberType::NonStealth, thousandths
NonStealthBomber ==
    [stealth |-> 200, payload_capacity |-> 1200, combat_radius |-> 1500]

\* LandUnit::new, Ship::new, FighterSquadron::new and BomberSquadron::new,
\* the unit then placed and equipped by the caller.  Position.altitude and
\* Position.depth are Options: a ship has depth Some(0.0), an aircraft
\* altitude Some(0.0), a land unit neither.  hull_integrity is a field of
\* ships only and stays 1.0 elsewhere.
NewUnitOf(kind, pos, ammunition) ==
    [kind |-> kind, x |-> pos[1], y |-> pos[2],
     altitude_some |-> kind \in {"Fighter", "Bomber"}, altitude |-> 0,
     depth_some |-> kind = "Destroyer",
     strength |-> KindStats(kind).strength,
     hull_integrity |-> 1000,
     morale |-> 1000, supply_level |-> 1000,
     status |-> "Active", entrenchment |-> 0,
     ammunition |-> ammunition, fuel |-> 0, supplies |-> 0]

\* MilitaryUnit::can_attack of Ship
Ship_can_attack(unit, target) ==
    IF unit.supply_level < 100 \/ unit.ammunition = 0
    THEN FALSE
    ELSE LET dsq == DistSq(unit.x, unit.y, target.x, target.y)
             caps == DestroyerCapabilities
         IN  IF target.altitude > 0
             THEN dsq <= caps.aa_range * caps.aa_range
                  /\ target.altitude <= caps.aa_ceiling
             ELSE IF target.depth_some
             THEN dsq <= caps.torpedo_range * caps.torpedo_range
             ELSE dsq <= caps.gun_range * caps.gun_range

\* MilitaryUnit::calculate_damage of Ship, thousandths
Ship_calculate_damage(unit, target) ==
    LET caps == DestroyerCapabilities
        base_damage == IF target.altitude > 0 THEN caps.aa_range \div 2
                       ELSE IF target.depth_some THEN caps.torpedo_damage
                       ELSE caps.gun_damage
    IN  Trunc(base_damage * unit.hull_integrity * KindStats(unit.kind).training,
              1000)

\* MilitaryUnit::receive_damage of Ship, damage in thousandths
Ship_receive_damage(unit, damage) ==
    LET effective_damage ==
            Trunc(damage * (1000 - DestroyerCapabilities.missile_defense \div 2),
                  1000)
        hull_integrity == Trunc(unit.hull_integrity * (1000 - effective_damage),
                                1000)
        status == IF hull_integrity <= 0 THEN "Destroyed"
                  ELSE IF hull_integrity < 250 THEN "Disabled"
                  ELSE unit.status
    IN  [unit EXCEPT !.hull_integrity = hull_integrity,
                     !.status = status,
                     !.morale = Trunc(@ * (1000 - Trunc(effective_damage * 3, 10)),
                                      1000)]

\* Ship::repair_hull with damage_control 1.0
repair_hull(unit, hours) ==
    LET repair_rate == 100 * hours
    IN  [unit EXCEPT !.hull_integrity = Min(@ + repair_rate, 1000)]

\* MilitaryUnit::can_attack of FighterSquadron
FighterSquadron_can_attack(unit, target) ==
    IF unit.supply_level < 100 \/ unit.ammunition = 0 THEN FALSE
    ELSE IF DistSq(unit.x, unit.y, target.x, target.y)
              > FifthGeneration.combat_radius * FifthGeneration.combat_radius
    THEN FALSE
    ELSE IF target.altitude_some
    THEN target.altitude <= FifthGeneration.service_ceiling
    ELSE TRUE

\* MilitaryUnit::calculate_damage of FighterSquadron, thousandths
FighterSquadron_calculate_damage(unit, target) ==
    LET effectiveness == IF target.altitude_some THEN FifthGeneration.air_to_air
                         ELSE FifthGeneration.air_to_ground
    IN  Trunc(Trunc(effectiveness * FifthGeneration.generation_bonus, 1000)
                * KindStats(unit.kind).training, 1000)

\* receive_damage of FighterSquadron and of BomberSquadron: the damage is
\* scaled by the stealth term of the squadron, then taken as for a land unit
squadron_receive_damage(unit, damage, stealth_term) ==
    LET actual_damage == Trunc(damage * (1000 - stealth_term), 1000)
        strength == Trunc(unit.strength * (1000 - actual_damage), 1000)
        status == IF strength <= 0 THEN "Destroyed"
                  ELSE IF strength < Trunc(strength, 4) THEN "Disabled"
                  ELSE unit.status
    IN  [unit EXCEPT !.strength = strength, !.status = status]

\* MilitaryUnit::receive_damage of FighterSquadron
FighterSquadron_receive_damage(unit, damage) ==
    squadron_receive_damage(unit, damage, FifthGeneration.stealth \div 2)

\* MilitaryUnit::can_attack of BomberSquadron
BomberSquadron_can_attack(unit, target) ==
    IF unit.supply_level < 100 \/ unit.ammunition = 0 THEN FALSE
    ELSE IF target.altitude_some THEN FALSE
    ELSE DistSq(unit.x, unit.y, target.x, target.y)
            <= NonStealthBomber.combat_radius * NonStealthBomber.combat_radius

\* Bombable::get_hardness of a LandUnit (Infantry); the default hardness of
\* calculate_damage for a target that is not Bombable
get_hardness(target) == IF target.kind = "Infantry" THEN 300 ELSE 500

\* MilitaryUnit::calculate_damage of BomberSquadron, thousandths
BomberSquadron_calculate_damage(unit, target) ==
    LET base_damage == Trunc(NonStealthBomber.payload_capacity
                                * KindStats(unit.kind).training, 1000)
    IN  Trunc(base_damage * (1000 - get_hardness(target)), 1000)

\* MilitaryUnit::receive_damage of BomberSquadron
BomberSquadron_receive_damage(unit, damage) ==
    squadron_receive_damage(unit, damage, Trunc(NonStealthBomber.stealth * 3, 10))

\* attacker.can_attack(target) on a &dyn MilitaryUnit
dyn_can_attack(unit, target) ==
    CASE unit.kind = "Infantry" -> unit_can_attack(unit, target)
      [] unit.kind = "Destroyer" -> Ship_can_attack(unit, target)
      [] unit.kind = "Fighter" -> FighterSquadron_can_attack(unit, target)
      [] unit.kind = "Bomber" -> BomberSquadron_can_attack(unit, target)

\* attacker.calculate_damage(target) on a &dyn MilitaryUnit
dyn_calculate_damage(unit, target) ==
    CASE unit.kind = "Infantry" -> calculate_damage(unit, target)
      [] unit.kind = "Destroyer" -> Ship_calculate_damage(unit, target)
      [] unit.kind = "Fighter" -> FighterSquadron_calculate_damage(unit, target)
      [] unit.kind = "Bomber" -> BomberSquadron_calculate_damage(unit, target)

\* unit.receive_damage(damage) on a &mut dyn MilitaryUnit
dyn_receive_damage(unit, damage) ==
    CASE unit.kind = "Infantry" -> receive_damage(unit, damage)
      [] unit.kind = "Destroyer" -> Ship_receive_damage(unit, damage)
      [] unit.kind = "Fighter" -> FighterSquadron_receive_damage(unit, damage)
      [] unit.kind = "Bomber" -> BomberSquadron_receive_damage(unit, damage)

\* MilitaryUnit::update_supply, the same in all four impls
update_supply(unit, supply_rate) ==
    [unit EXCEPT !.supply_level = Min(@ + supply_rate, 1000)]

\* LandUnit::entrench of Infantry (max_entrenchment 1.0)
entrench(unit, hours) ==
    LET entrenchment_rate == 100 * hours
    IN  [unit EXCEPT !.entrenchment = Min(@ + entrenchment_rate, 1000)]

\* the strength of a unit that its kind measures damage on: the hull
\* integrity of a ship (thousandths), the strength of the others (points)
health(unit) == IF unit.kind = "Destroyer" THEN unit.hull_integrity
                ELSE unit.strength

\* the full value of that strength
max_health(unit) == IF unit.kind = "Destroyer" THEN 1000
                    ELSE KindStats(unit.kind).strength

\* ------------------------------------------------------------------------
\* CombatResolver on units of every kind (src/taiwan/src/game/combat.rs)
\* ------------------------------------------------------------------------
\* the positions the defender is met at: 5 km and 50 km from the attacker
DefenderPositions == {<<3, 4>>, <<30, 40>>}

\* the ammunition an attacker is equipped with (Arsenal::default has none)
Ammunitions == {0, 10}

\* the rates update_supply is called with, thousandths: two that lower the
\* supply and one that would raise it past 1.0
SupplyRates == {-950, -100, 500}

\* the hours repair_hull and entrench are called with
Hours == {1, 7}

\* CombatResolver::validate_combat without the test of the defender's status
CombatResolver_validate_combat_AnyDefender(a, d) ==
    IF a.status # "Active" THEN FALSE
    ELSE IF a.ammunition <= 0 THEN FALSE
    ELSE IF ~dyn_can_attack(a, d) THEN FALSE
    ELSE TRUE

\* CombatResolver::validate_combat on two &dyn MilitaryUnit
CombatResolver_validate_combat(a, d) ==
    IF a.status # "Active" \/ d.status # "Active" THEN FALSE
    ELSE IF a.ammunition <= 0 THEN FALSE
    ELSE IF ~dyn_can_attack(a, d) THEN FALSE
    ELSE TRUE

\* CombatResolver::calculate_attack_power with the default modifiers
CombatResolver_calculate_attack_power(a, d) ==
    LET base_power == dyn_calculate_damage(a, d)
        stats == KindStats(a.kind)
    IN  Trunc(Trunc(Trunc(base_power * a.morale, 1000) * stats.training, 1000)
                * (1000 - stats.fatigue), 1000)

\* CombatResolver::calculate_defense_power with the default modifiers and a
\* terrain defence multiplier of 1.0
CombatResolver_calculate_defense_power(d) ==
    LET base_defense == CASE d.status = "Entrenched" -> 1500
                          [] d.status = "Active" -> 1000
                          [] OTHER -> 700
        stats == KindStats(d.kind)
    IN  Trunc(Trunc(base_defense * stats.training, 1000)
                * (1000 - stats.fatigue), 1000)

\* the Hit events resolve_strike pushes to the log, the attacker's first
strike_log(strike, att_hits, def_hits) ==
    (IF att_hits
     THEN <<[event |-> "Hit", attacker_id |-> 0, defender_id |-> 1,
             damage |-> strike.att_damage]>>
     ELSE <<>>)
    \o (IF def_hits
        THEN <<[event |-> "Hit", attacker_id |-> 1, defender_id |-> 0,
                damage |-> strike.def_damage]>>
        ELSE <<>>)

\* CombatResolver::apply_damage: the unit after receive_damage and the
\* events pushed to the log for its status
apply_damage(unit, damage) ==
    LET hit == dyn_receive_damage(unit, damage)
    IN  [unit |-> hit,
         log |-> CASE hit.status = "Destroyed" ->
                        <<[event |-> "UnitDestroyed", unit_id |-> 0]>>
                   [] hit.status = "Retreating" ->
                        <<[event |-> "UnitRetreated", unit_id |-> 0]>>
                   [] OTHER -> <<>>]

\* CombatResolver::handle_special_effects: the events pushed to the log.  No
\* unit type implements AntiAir, so MissileIntercepted is never pushed.
handle_special_effects(a, d) ==
    IF dyn_calculate_damage(a, d) > 500
    THEN <<[event |-> "SupplyDisrupted", unit_id |-> 0]>>
    ELSE <<>>

\* what every call on the resolver or a unit reads stays in the range the
\* arithmetic of the model is exact on
WithinStat(unit) ==
    /\ unit.hull_integrity <= MaxStat /\ unit.hull_integrity >= -MaxStat
    /\ unit.morale <= MaxStat /\ unit.morale >= -MaxStat

\* the calls of an engagement are counted
CallOpen ==
    /\ cr_calls < MaxCombatCalls
    /\ WithinStat(attacker_unit)
    /\ WithinStat(defender_unit)

\* what a call other than resolve_combat leaves as its result
NoCombatResult ==
    [status |-> "Ok", attacker_damage_dealt |-> 0, defender_damage_dealt |-> 0,
     combat_events |-> <<>>]

\* CombatResolver::resolve_combat with the log kept after the call
CombatResolver_resolve_combat_KeepsLog(att_hits, def_hits) ==
    /\ CallOpen
    /\ cr_calls' = cr_calls + 1
    /\ cr_op' = [name |-> "resolve_combat", att_hits |-> att_hits,
                 def_hits |-> def_hits]
    /\ UNCHANGED <<tmVars, gameVars>>
    /\ IF ~CombatResolver_validate_combat(attacker_unit, defender_unit)
       THEN /\ cr_result' = [NoCombatResult EXCEPT !.status = "InvalidAttack"]
            /\ UNCHANGED <<attacker_unit, defender_unit, combat_log>>
       ELSE LET attack_power ==
                    CombatResolver_calculate_attack_power(attacker_unit,
                                                          defender_unit)
                defense_power ==
                    CombatResolver_calculate_defense_power(defender_unit)
                strike == resolve_strike(attack_power, defense_power,
                                         att_hits, def_hits)
                hit_attacker == apply_damage(attacker_unit, strike.def_damage)
                hit_defender == apply_damage(defender_unit, strike.att_damage)
                log == combat_log
                       \o strike_log(strike, att_hits, def_hits)
                       \o hit_attacker.log
                       \o hit_defender.log
                       \o handle_special_effects(hit_attacker.unit,
                                                 hit_defender.unit)
            IN  /\ attacker_unit' = hit_attacker.unit
                /\ defender_unit' = hit_defender.unit
                /\ cr_result' = [status |-> "Ok",
                                 attacker_damage_dealt |-> strike.att_damage,
                                 defender_damage_dealt |-> strike.def_damage,
                                 combat_events |-> log]
                /\ combat_log' = log

\* CombatResolver::resolve_combat; att_hits and def_hits are the two rolls
\* of resolve_strike
CombatResolver_resolve_combat(att_hits, def_hits) ==
    /\ CallOpen
    /\ cr_calls' = cr_calls + 1
    /\ cr_op' = [name |-> "resolve_combat", att_hits |-> att_hits,
                 def_hits |-> def_hits]
    /\ UNCHANGED <<tmVars, gameVars>>
    /\ IF ~CombatResolver_validate_combat(attacker_unit, defender_unit)
       THEN /\ cr_result' = [NoCombatResult EXCEPT !.status = "InvalidAttack"]
            /\ UNCHANGED <<attacker_unit, defender_unit, combat_log>>
       ELSE LET attack_power ==
                    CombatResolver_calculate_attack_power(attacker_unit,
                                                          defender_unit)
                defense_power ==
                    CombatResolver_calculate_defense_power(defender_unit)
                strike == resolve_strike(attack_power, defense_power,
                                         att_hits, def_hits)
                hit_attacker == apply_damage(attacker_unit, strike.def_damage)
                hit_defender == apply_damage(defender_unit, strike.att_damage)
                log == combat_log
                       \o strike_log(strike, att_hits, def_hits)
                       \o hit_attacker.log
                       \o hit_defender.log
                       \o handle_special_effects(hit_attacker.unit,
                                                 hit_defender.unit)
            IN  /\ attacker_unit' = hit_attacker.unit
                /\ defender_unit' = hit_defender.unit
                /\ cr_result' = [status |-> "Ok",
                                 attacker_damage_dealt |-> strike.att_damage,
                                 defender_damage_dealt |-> strike.def_damage,
                                 combat_events |-> log]
                /\ combat_log' = <<>>

\* the exchange of the second attack_unit (state.rs:730-745) between the
\* two units: the attacker's calculate_damage is handed to the defender's
\* receive_damage when can_attack allows it
unit_attack ==
    /\ CallOpen
    /\ cr_calls' = cr_calls + 1
    /\ cr_op' = [name |-> "attack"]
    /\ UNCHANGED <<tmVars, gameVars, attacker_unit, combat_log>>
    /\ IF ~dyn_can_attack(attacker_unit, defender_unit)
       THEN /\ cr_result' = [NoCombatResult EXCEPT !.status = "InvalidAttack"]
            /\ UNCHANGED defender_unit
       ELSE /\ defender_unit' =
                    dyn_receive_damage(defender_unit,
                        dyn_calculate_damage(attacker_unit, defender_unit))
            /\ cr_result' = NoCombatResult

\* MilitaryUnit::update_supply called on one of the two units
unit_update_supply(of_attacker, supply_rate) ==
    /\ CallOpen
    /\ cr_calls' = cr_calls + 1
    /\ cr_op' = [name |-> "update_supply"]
    /\ cr_result' = NoCombatResult
    /\ IF of_attacker
       THEN /\ attacker_unit' = update_supply(attacker_unit, supply_rate)
            /\ UNCHANGED defender_unit
       ELSE /\ defender_unit' = update_supply(defender_unit, supply_rate)
            /\ UNCHANGED attacker_unit
    /\ UNCHANGED <<tmVars, gameVars, combat_log>>

\* Ship::repair_hull called on the defender, a ship
unit_repair_hull(hours) ==
    /\ CallOpen
    /\ defender_unit.kind = "Destroyer"
    /\ cr_calls' = cr_calls + 1
    /\ cr_op' = [name |-> "repair_hull"]
    /\ cr_result' = NoCombatResult
    /\ defender_unit' = repair_hull(defender_unit, hours)
    /\ UNCHANGED <<tmVars, gameVars, attacker_unit, combat_log>>

\* LandUnit::entrench called on the attacker, a land unit
unit_entrench(hours) ==
    /\ CallOpen
    /\ attacker_unit.kind = "Infantry"
    /\ cr_calls' = cr_calls + 1
    /\ cr_op' = [name |-> "entrench"]
    /\ cr_result' = NoCombatResult
    /\ attacker_unit' = entrench(attacker_unit, hours)
    /\ UNCHANGED <<tmVars, gameVars, defender_unit, combat_log>>

\* CombatResolver::new beside two new units of the given kinds
InitCombatOf(attacker_kind, defender_kind, pos, ammunition) ==
    /\ attacker_unit = NewUnitOf(attacker_kind, <<0, 0>>, ammunition)
    /\ defender_unit = NewUnitOf(defender_kind, pos, 0)
    /\ combat_log = <<>>
    /\ cr_op = [name |-> "new"]
    /\ cr_result = NoCombatResult
    /\ cr_calls = 0

\* the resolver of a Game, with no engagement under way and no unit
\* handed to it
InitCombatIdle ==
    /\ attacker_unit = [kind |-> "None"]
    /\ defender_unit = [kind |-> "None"]
    /\ combat_log = <<>>
    /\ cr_op = [name |-> "new"]
    /\ cr_result = [status |-> "Ok"]
    /\ cr_calls = 0

\* an engagement between units of any two kinds
InitCombat ==
    \E ak \in UnitKinds, dk \in UnitKinds, pos \in DefenderPositions,
       ammunition \in Ammunitions :
        InitCombatOf(ak, dk, pos, ammunition)

NextCombat ==
    \/ \E att_hits \in BOOLEAN, def_hits \in BOOLEAN :
          CombatResolver_resolve_combat(att_hits, def_hits)
    \/ unit_attack
    \/ \E of_attacker \in BOOLEAN, rate \in SupplyRates :
          unit_update_supply(of_attacker, rate)
    \/ \E hours \in Hours : unit_repair_hull(hours)
    \/ \E hours \in Hours : unit_entrench(hours)

\* ------------------------------------------------------------------------
\* The supply lines of a game (src/taiwan/src/game/state.rs)
\* ------------------------------------------------------------------------
\* the damage a unit has taken in the fights before, thousandths: none, or
\* enough to destroy it
FightDamages == {0, 1000}

\* the damage arguments bomb_road is called with: an f64 of either sign,
\* thousandths
BombDamages == {-300, 300, 900}

\* a game in the Movement or the Combat phase whose units have been through
\* earlier fights: each is as LandUnit::new made it or as receive_damage
\* left it, and the casualties are counted as attack_unit counts them
InitSupplyLines ==
    \E p \in {"Movement", "Combat"}, damage \in [UnitIds -> FightDamages] :
        /\ turn = 1
        /\ phase = p
        /\ weather = "Clear"
        /\ time_of_day = "Dawn"
        /\ units = [u \in UnitIds |->
                        receive_damage(IF u = 1 THEN NewUnit(u, 0, 0, 10)
                                       ELSE NewUnit(u, 3, 4, 0),
                                       damage[u])]
        /\ roads = [r \in RoadIds |->
                        [start_city |-> 1, end_city |-> 2, condition |-> 1000,
                         is_mined |-> FALSE]]
        /\ supply_network = [c \in {} |-> {}]
        /\ visibility_map = <<>>
        /\ statistics =
             [units_lost |->
                  [f \in Factions |->
                       Cardinality({u \in UnitIds :
                                       /\ UnitSpec[u].faction = f
                                       /\ damage[u] = 1000})],
              damage_dealt |-> [u \in UnitIds |-> 0],
              supply_consumed |-> 0]
        /\ event_history = [len |-> 0, recent |-> <<>>]
        /\ op = "new"
        /\ result = "Ok"

\* the orders that move the units, change their status, damage the roads
\* and rebuild the supply network
NextSupplyLines ==
    \/ \E roll \in BOOLEAN, drawn \in Weather :
          Open /\ TurnOpen /\ next_turn(roll, drawn)
    \/ \E u \in UnitIds, d \in Dests : Open /\ move_unit_b(u, d[1], d[2])
    \/ \E a \in UnitIds, d \in UnitIds : Open /\ attack_unit_b(a, d)
    \/ \E r \in RoadArgs, dmg \in BombDamages : Open /\ bomb_road(r, dmg)
    \/ \E r \in RoadArgs : Open /\ mine_road_a(r)
    \/ \E r \in RoadArgs : Open /\ mine_road_b(r)

\* ------------------------------------------------------------------------
\* Victory (src/taiwan/src/game/state.rs, src/taiwan/src/game/mod.rs)
\* ------------------------------------------------------------------------
\* config.victory_conditions of GameConfig::default; the fractions in
\* thousandths
victory_conditions ==
    [turn_limit |-> 30,
     key_cities |-> {"Taipei", "Kaohsiung"},
     required_city_control |-> 700,
     enemy_casualties_threshold |-> 500]

\* Game.controlled_territories (faction -> tile ids): Game::new leaves the
\* map empty and no operation inserts into it
controlled_territories == [faction \in {} |-> {}]

\* the assignments of the cities to the factions that control them
Controllers == [CityIds -> Factions]

\* Game.cities, with the controller each city was configured with
cities_of(controller) ==
    [c \in CityIds |-> [City[c] EXCEPT !.controller = controller[c]]]

\* Game::count_faction_units: the units of the faction that are not
\* Destroyed
count_faction_units(faction) ==
    Cardinality({u \in DOMAIN units :
                    /\ UnitSpec[u].faction = faction
                    /\ units[u].status # "Destroyed"})

\* the city control test of is_over and get_winner: the share of the key
\* cities that a city of the faction bears the name of
controls_key_cities(cities, faction) ==
    LET controlled_key_cities ==
            Cardinality({city_name \in victory_conditions.key_cities :
                            \E c \in DOMAIN cities :
                                /\ cities[c].name = city_name
                                /\ cities[c].controller = faction})
    IN  controlled_key_cities * 1000
            >= victory_conditions.required_city_control
                   * Cardinality(victory_conditions.key_cities)

\* the casualty test of is_over and get_winner on the casualties of one
\* faction; the f32 quotient 0/0 is NaN, which no comparison accepts
casualties_reached(faction) ==
    LET casualties == statistics.units_lost[faction]
        total_units == count_faction_units(faction)
    IN  /\ total_units + casualties > 0
        /\ casualties * 1000
              >= victory_conditions.enemy_casualties_threshold
                     * (total_units + casualties)

\* is_over without the test of the turn limit
is_over_NoTurnLimit(cities) ==
    \/ \E faction \in DOMAIN controlled_territories :
          controls_key_cities(cities, faction)
    \/ \E faction \in DOMAIN statistics.units_lost :
          casualties_reached(faction)

\* is_over with the turn limit passed only after the configured turn
is_over_PastLimit(cities) ==
    \/ turn > victory_conditions.turn_limit
    \/ \E faction \in DOMAIN controlled_territories :
          controls_key_cities(cities, faction)
    \/ \E faction \in DOMAIN statistics.units_lost :
          casualties_reached(faction)

\* Game::is_over
is_over(cities) ==
    \/ turn >= victory_conditions.turn_limit
    \/ \E faction \in DOMAIN controlled_territories :
          controls_key_cities(cities, faction)
    \/ \E faction \in DOMAIN statistics.units_lost :
          casualties_reached(faction)

\* Game::get_winner: the values the call can return ("None" for no
\* winner); the maps are walked in an order the build chooses, and the
\* first faction that passes a test is returned
get_winner(cities) ==
    LET by_cities == {faction \in DOMAIN controlled_territories :
                         controls_key_cities(cities, faction)}
        by_casualties ==
            {faction \in DOMAIN controlled_territories :
                \E enemy_faction \in DOMAIN statistics.units_lost :
                    /\ enemy_faction # faction
                    /\ casualties_reached(enemy_faction)}
    IN  IF ~is_over(cities) THEN {"None"}
        ELSE IF by_cities # {} THEN by_cities
        ELSE IF by_casualties # {} THEN by_casualties
        ELSE {"None"}

\* a game followed to its turn limit: the units fight and the turns end
NextVictory ==
    \/ \E a \in UnitIds, d \in UnitIds : FightOpen /\ attack_unit_b(a, d)
    \/ \E roll \in BOOLEAN, drawn \in Weather :
          turn < MaxVictoryTurn /\ next_turn(roll, drawn)

\* ------------------------------------------------------------------------
\* The upkeep of a garrison (src/taiwan/src/game/state.rs)
\* ------------------------------------------------------------------------
\* how unit 1 is prepared before it is handed to the game: the post it is
\* placed on, the supply_rate (thousandths) of the update_supply call made
\* on it and the hours of the entrench call made on it
Garrison ==
    [posts |-> {<<0, 0>>, <<30, 72>>},
     supply_rates |-> {0, -600},
     hours |-> {0, 5}]

\* a new TurnManager beside a game in the Movement or Supply phase that
\* holds a prepared unit 1 and a new unit 2
InitUpkeep ==
    /\ InitTM
    /\ InitCombatIdle
    /\ \E p \in {"Movement", "Supply"}, post \in Garrison.posts,
          rate \in Garrison.supply_rates, h \in Garrison.hours :
        /\ turn = 1
        /\ phase = p
        /\ weather = "Clear"
        /\ time_of_day = "Dawn"
        /\ units = [u \in UnitIds |->
                        IF u = 1
                        THEN entrench(update_supply(
                                 NewUnit(u, post[1], post[2], 10), rate), h)
                        ELSE NewUnit(u, 3, 4, 0)]
        /\ roads = [r \in RoadIds |->
                        [start_city |-> 1, end_city |-> 2, condition |-> 1000,
                         is_mined |-> FALSE]]
        /\ supply_network = [c \in {} |-> {}]
        /\ visibility_map = <<>>
        /\ statistics = [units_lost |-> [f \in Factions |-> 0],
                         damage_dealt |-> [u \in UnitIds |-> 0],
                         supply_consumed |-> 0]
        /\ event_history = [len |-> 0, recent |-> <<>>]
        /\ op = "new"
        /\ result = "Ok"

\* the garrison given orders to move, repair and resupply over the turns,
\* in which a storm may set in
NextUpkeep ==
    \/ \E roll \in BOOLEAN :
          Open /\ TurnOpen /\ next_turn(roll, "Storm")
    \/ \E u \in UnitIds, d \in Dests : Open /\ move_unit_a(u, d[1], d[2])
    \/ \E u \in UnitIds, d \in Dests : Open /\ move_unit_b(u, d[1], d[2])
    \/ \E u \in UnitIds : Open /\ repair_unit_a(u)
    \/ \E u \in UnitIds : Open /\ repair_unit_b(u)
    \/ \E u \in UnitIds : Open /\ resupply_unit_a(u)
    \/ \E u \in UnitIds : Open /\ resupply_unit_b(u)

\* ------------------------------------------------------------------------
\* Resupply at a distance (src/taiwan/src/game/state.rs)
\* ------------------------------------------------------------------------
\* a new TurnManager beside a game in the Combat or Supply phase, in any
\* weather, whose units stand together in Taipei, 50 km from it or 1300 km
\* from it
InitResupply ==
    /\ InitTM
    /\ InitCombatIdle
    /\ \E p \in {"Combat", "Supply"}, w \in Weather,
          post \in {<<0, 0>>, <<30, 40>>, <<1200, 500>>} :
        /\ turn = 1
        /\ phase = p
        /\ weather = w
        /\ time_of_day = "Dawn"
        /\ units = [u \in UnitIds |->
                        NewUnit(u, post[1], post[2], IF u = 1 THEN 10 ELSE 0)]
        /\ roads = [r \in RoadIds |->
                        [start_city |-> 1, end_city |-> 2, condition |-> 1000,
                         is_mined |-> FALSE]]
        /\ supply_network = [c \in {} |-> {}]
        /\ visibility_map = <<>>
        /\ statistics = [units_lost |-> [f \in Factions |-> 0],
                         damage_dealt |-> [u \in UnitIds |-> 0],
                         supply_consumed |-> 0]
        /\ event_history = [len |-> 0, recent |-> <<>>]
        /\ op = "new"
        /\ result = "Ok"

\* resupply orders, given until the supply-consumed statistic has left the
\* range from zero to MaxSupplyConsumed
NextResupply ==
    \/ \E u \in UnitIds :
          statistics.supply_consumed >= 0 /\ resupply_unit_a(u)
    \/ \E u \in UnitIds :
          statistics.supply_consumed >= 0 /\ resupply_unit_b(u)

\* ------------------------------------------------------------------------
\* Specifications
\* ------------------------------------------------------------------------
\* a new TurnManager beside a new Game
InitIdle == InitTM /\ InitGameIdle /\ InitCombatIdle

\* a new TurnManager beside a game set up in any of the phases
Init == InitTM /\ InitGame /\ InitCombatIdle

\* a new TurnManager and a new Game beside an engagement of two units
InitEngagement == InitTM /\ InitGameIdle /\ InitCombat

\* a TurnManager driven through its own operations
SpecTM == InitIdle /\ [][NextTM]_vars

\* a Game driven through the facade
Spec == Init /\ [][NextGame]_vars

\* a new Game driven through the facade
SpecNewGame == InitIdle /\ [][NextGame]_vars

\* a TurnManager and a Game given orders within a turn
SpecSys == Init /\ [][NextSys]_vars

\* a TurnManager and a Game taken through the turns
SpecDay == InitIdle /\ [][NextDay]_vars

\* the units of a Game given orders until some are destroyed
SpecFight == Init /\ [][NextFight]_vars

\* two units and a CombatResolver driven through their operations
SpecCombat == InitEngagement /\ [][NextCombat]_vars

\* a new TurnManager beside a game whose units have been through fights
InitLines == InitTM /\ InitSupplyLines /\ InitCombatIdle

\* a Game whose supply lines are cut and rebuilt
SpecSupply == InitLines /\ [][NextSupplyLines]_vars

\* a Game followed to its turn limit
SpecVictory == InitLines /\ [][NextVictory]_vars

\* a Game followed to its turn limit whose turns keep being completed: the
\* caller that ends the turns is never held back for good
SpecVictoryFair ==
    /\ InitLines
    /\ [][NextVictory]_vars
    /\ WF_vars(\E roll \in BOOLEAN, drawn \in Weather :
                  turn < MaxVictoryTurn /\ next_turn(roll, drawn))

\* a Game whose garrison is kept up over the turns
SpecUpkeep == InitUpkeep /\ [][NextUpkeep]_vars

\* a Game whose units are resupplied from near and from far
SpecResupply == InitResupply /\ [][NextResupply]_vars

\* ------------------------------------------------------------------------
\* Properties of the TurnManager
\* ------------------------------------------------------------------------
\* the cycle of phases as the specification states it
PhaseSucc ==
    [k \in GamePhase |->
        CASE k = "Planning" -> "Movement"
          [] k = "Movement" -> "Combat"
          [] k = "Combat" -> "Supply"
          [] k = "Supply" -> "EndTurn"
          [] k = "EndTurn" -> "Planning"]

\* a step that is a call of advance_phase
AdvanceStep == calls' = calls + 1

\* a step that is a call of consume_action
ConsumeStep == attempts' = attempts + 1

\* the events a step appended to the TurnManager's list
Appended == SubSeq(events', Len(events) + 1, Len(events'))

\* C1: every advance_phase call moves the phase to its unique successor in
\* Planning -> Movement -> Combat -> Supply -> EndTurn -> Planning, for any
\* unit_count; it never skips, repeats or reverses a phase.
C1_PhaseCycle ==
    [][AdvanceStep =>
          /\ tm_result' = "Ok"
          /\ current_phase'.kind = PhaseSucc[current_phase.kind]]_vars

C1_Witness ==
    /\ calls = 6
    /\ current_turn = 2
    /\ current_phase.kind = "Movement"

\* C4: in a budgeted phase entered with budget N exactly the first N
\* consume_action calls succeed, each lowering the remaining budget by one,
\* every later call fails with PhaseError, and the budget never goes below 0.
C4_BudgetCountdown ==
    current_phase.kind \in {"Movement", "Combat", "Supply"} =>
        /\ current_phase.budget >= 0
        /\ current_phase.budget =
              entered_budget - (IF attempts < entered_budget THEN attempts
                                ELSE entered_budget)
        /\ tm_op = "consume_action" =>
              (tm_result = "Ok" <=> attempts <= entered_budget)
        /\ (tm_op = "consume_action" /\ attempts > entered_budget) =>
              tm_result = "PhaseError"

C4_Witness ==
    /\ current_phase.kind = "Movement"
    /\ entered_budget = 2
    /\ attempts = 3
    /\ tm_op = "consume_action"
    /\ tm_result = "PhaseError"
    /\ current_phase.budget = 0

\* C5: consume_action in Planning or EndTurn always fails with PhaseError,
\* and a failing consume_action leaves phase, budget, turn, time of day,
\* weather and the event list unchanged.
C5_FailedConsumeFrame ==
    [][ConsumeStep =>
          /\ current_phase.kind \in {"Planning", "EndTurn"} =>
                tm_result' = "PhaseError"
          /\ tm_result' \in {"Ok", "PhaseError"}
          /\ tm_result' = "PhaseError" =>
                UNCHANGED <<current_phase, current_turn, tm_time_of_day,
                            tm_weather, events>>]_vars

C5_Witness ==
    /\ tm_op = "consume_action"
    /\ tm_result = "PhaseError"
    /\ current_phase.kind = "EndTurn"
    /\ Len(events) > 0

\* C6: the budget of a phase is fixed by the unit_count of the advance_phase
\* call entering it: Movement and Combat get unit_count, Supply gets
\* 2*unit_count + floor(sqrt(unit_count)).
C6_BudgetFromUnitCount ==
    tm_op = "advance_phase" =>
        LET n == last_unit_count
            b == current_phase.budget
        IN  /\ current_phase.kind = "Movement" => b = n
            /\ current_phase.kind = "Combat" => b = n
            /\ current_phase.kind = "Supply" =>
                  \E r \in 0..n : /\ r * r <= n
                                  /\ n < (r + 1) * (r + 1)
                                  /\ b = 2 * n + r

C6_Witness ==
    /\ tm_op = "advance_phase"
    /\ current_phase.kind = "Supply"
    /\ last_unit_count = 3
    /\ current_phase.budget = 7

\* C8: the turn counter goes up by exactly one on the EndTurn -> Planning
\* transition and is unchanged by every other advance_phase call, so after
\* k calls the turn is 1 + floor(k/5); each increment records exactly one
\* TurnCompleted event.
C8_TurnCounter ==
    [][AdvanceStep =>
          /\ current_turn' =
                current_turn + (IF current_phase.kind = "EndTurn" THEN 1 ELSE 0)
          /\ current_turn' = 1 + (calls' \div 5)
          /\ Cardinality({i \in DOMAIN Appended :
                            Appended[i].type = "TurnCompleted"})
                = current_turn' - current_turn
          /\ \A i \in DOMAIN Appended :
                Appended[i].type = "TurnCompleted" =>
                    Appended[i].turn_number = current_turn']_vars

C8_Witness ==
    /\ calls = 10
    /\ current_turn = 3
    /\ tm_op = "advance_phase"
    /\ \E i \in DOMAIN events : events[i].type = "TurnCompleted"

\* ------------------------------------------------------------------------
\* Properties of the Game facade
\* ------------------------------------------------------------------------
\* the phase each gated call belongs to
PhaseOf ==
    [move_unit |-> "Movement", attack_unit |-> "Combat",
     resupply_unit |-> "Supply"]

\* the mutators of the facade
Mutators ==
    {"move_unit", "attack_unit", "repair_unit", "resupply_unit",
     "bomb_road", "mine_road"}

\* C2: move_unit outside Movement, attack_unit outside Combat and
\* resupply_unit outside Supply fail with PhaseError for every input and
\* leave the whole game state unchanged.
C2_PhaseGate ==
    [][(op' \in DOMAIN PhaseOf /\ phase # PhaseOf[op']) =>
          /\ result' = "PhaseError"
          /\ UNCHANGED gameState]_vars

C10_EndOfTurnRecomputed ==
    op = "next_turn" =>
        /\ supply_network = update_supply_network(units, roads)
        /\ visibility_map = update_visibility(units, weather, time_of_day)

\* ------------------------------------------------------------------------
\* Properties of the TurnManager and the Game together
\* ------------------------------------------------------------------------
\* a step in which a gated call of the facade succeeded
OrderStep ==
    /\ gameState' # gameState
    /\ op' \in DOMAIN PhaseOf
    /\ result' = "Ok"

\* C7: each successful move_unit, attack_unit or resupply_unit lowers the
\* remaining budget of the current phase by exactly one, an action
\* attempted when the budget is zero is refused, and between two phase
\* transitions the remaining budget never increases.
C7_BudgetConsumedByActions ==
    [][/\ (OrderStep /\ current_phase.kind = PhaseOf[op']) =>
             /\ current_phase.budget > 0
             /\ current_phase' =
                   [current_phase EXCEPT !.budget = @ - 1]
       /\ ~AdvanceStep => current_phase'.budget <= current_phase.budget]_vars

\* the time of day of a turn: period four, Dawn at turn 1
TimeOfDayAt(t) ==
    CASE (t - 1) % 4 = 0 -> "Dawn"
      [] (t - 1) % 4 = 1 -> "Day"
      [] (t - 1) % 4 = 2 -> "Dusk"
      [] (t - 1) % 4 = 3 -> "Night"

Engaged == {attacker_unit, defender_unit}

\* C11: after any sequence of receive_damage, repair and attack calls the
\* strength of a unit (the hull integrity of a ship) is never negative and
\* never above the value it was created with
C11_StrengthInRange ==
    \A u \in Engaged : health(u) >= 0 /\ health(u) <= max_health(u)

\* C12: the supply level of a unit stays within [0, 1] after any sequence of
\* update_supply calls, for every rate, negative rates included
C12_SupplyInRange ==
    \A u \in Engaged : u.supply_level >= 0 /\ u.supply_level <= 1000

\* the statuses other than Active and Entrenched
Inactive == {"Disabled", "Retreating", "Destroyed"}

\* C13: a move_unit call for a unit, and an attack_unit call with an
\* attacker, whose status is Disabled, Retreating or Destroyed fails and
\* changes nothing of the game
C13_OnlyActiveAct ==
    [][\A u \in UnitIds :
          (/\ units[u].status \in Inactive
           /\ \/ \E d \in Dests : move_unit_b(u, d[1], d[2])
              \/ \E d \in UnitIds : attack_unit_b(u, d))
          => (result' # "Ok" /\ UNCHANGED gameState)]_vars

\* what C14 says a destroyed unit keeps: status, strength, position, supply
\* level and arsenal
Kept(unit) ==
    <<unit.status, unit.strength, unit.x, unit.y, unit.supply_level,
      unit.ammunition, unit.fuel, unit.supplies>>

\* C14: once a unit is Destroyed no facade action changes its status,
\* strength, position, supply level or arsenal, and it stays in the store
C14_DestroyedReadOnly ==
    [][\A u \in UnitIds :
          units[u].status = "Destroyed" =>
              /\ u \in DOMAIN units'
              /\ Kept(units'[u]) = Kept(units[u])]_vars

\* C15: in every reachable state a unit is Destroyed exactly when its
\* strength (hull integrity for a ship) is zero or less
C15_DestroyedIffNoStrength ==
    \A u \in Engaged : (u.status = "Destroyed") <=> (health(u) <= 0)

\* a unit survived a hit that left it below a quarter of the strength it
\* had before (a ship: below a hull integrity of 0.25)
BadlyHit(before, after) ==
    /\ before.status # "Destroyed"
    /\ health(after) > 0
    /\ health(after) < health(before)
    /\ IF after.kind = "Destroyer" THEN after.hull_integrity < 250
       ELSE 4 * after.strength < before.strength

\* C16: a unit that survives damage with its strength below a quarter of
\* the strength it had before the hit (a ship: hull integrity below 0.25)
\* is Disabled or Retreating after that step
C16_QuarterStrengthDisables ==
    [][/\ BadlyHit(attacker_unit, attacker_unit')
          => attacker_unit'.status \in {"Disabled", "Retreating"}
       /\ BadlyHit(defender_unit, defender_unit')
          => defender_unit'.status \in {"Disabled", "Retreating"}]_vars

\* ------------------------------------------------------------------------
\* Properties of CombatResolver::resolve_combat
\* ------------------------------------------------------------------------
\* the last call was a resolve_combat that returned Ok
Resolved == cr_op.name = "resolve_combat" /\ cr_result.status = "Ok"

\* the Hit events of a result that the given side dealt (the attacker is
\* side 0, the defender side 1)
HitsBy(combat_events, side) ==
    SelectSeq(combat_events,
              LAMBDA e : e.event = "Hit" /\ e.attacker_id = side)

\* C17: the result of a successful resolve_combat holds at most one Hit
\* event per side, the Hit of a side exactly when the roll of that side
\* hit, and none left from an earlier call
C17_HitEvents ==
    Resolved =>
        /\ Len(HitsBy(cr_result.combat_events, 0))
             = (IF cr_op.att_hits THEN 1 ELSE 0)
        /\ Len(HitsBy(cr_result.combat_events, 1))
             = (IF cr_op.def_hits THEN 1 ELSE 0)
        /\ combat_log = <<>>

\* a second exchange in which only the defender hit, after an exchange in
\* which the defender had hit already
C17_Witness ==
    /\ Resolved
    /\ cr_calls = 2
    /\ ~cr_op.att_hits /\ cr_op.def_hits
    /\ attacker_unit.kind = "Infantry" /\ attacker_unit.strength <= 5
    /\ Len(HitsBy(cr_result.combat_events, 1)) = 1

\* the strength a call took from a unit, thousandths (points of strength
\* count a thousand each, hull integrity is a fraction)
Lost(before, after) ==
    IF before.kind = "Destroyer"
    THEN before.hull_integrity - after.hull_integrity
    ELSE 1000 * (before.strength - after.strength)

\* the damage of the Hit event of a side in a result, zero without one
HitDamage(combat_events, side) ==
    IF HitsBy(combat_events, side) = <<>> THEN 0
    ELSE HitsBy(combat_events, side)[1].damage

\* the step is a resolve_combat call that returned Ok
ResolveStep == cr_op'.name = "resolve_combat" /\ cr_result'.status = "Ok"

\* C18: in one resolve_combat call the strength (hull) lost by the two
\* units together equals the sum of the damages of the Hit events of that
\* call, and a side whose opponent missed loses nothing
C18_DamageConserved ==
    [][ResolveStep =>
          /\ Lost(attacker_unit, attacker_unit')
               + Lost(defender_unit, defender_unit')
               = HitDamage(cr_result'.combat_events, 0)
                 + HitDamage(cr_result'.combat_events, 1)
          /\ ~cr_op'.def_hits => Lost(attacker_unit, attacker_unit') = 0
          /\ ~cr_op'.att_hits => Lost(defender_unit, defender_unit') = 0]_vars

\* the result has a SupplyDisrupted event
Disrupted(combat_events) ==
    \E i \in DOMAIN combat_events : combat_events[i].event = "SupplyDisrupted"

\* C19: in a resolve_combat call the damage of each side and every event
\* of the result are determined from the two units as they were before the
\* call, and each unit ends as its own receive_damage of the other side's
\* damage leaves it, whichever is applied first
C19_SimultaneousExchange ==
    [][ResolveStep =>
          LET attack_power ==
                  CombatResolver_calculate_attack_power(attacker_unit,
                                                        defender_unit)
              defense_power ==
                  CombatResolver_calculate_defense_power(defender_unit)
              strike == resolve_strike(attack_power, defense_power,
                                       cr_op'.att_hits, cr_op'.def_hits)
          IN  /\ cr_result'.attacker_damage_dealt = strike.att_damage
              /\ cr_result'.defender_damage_dealt = strike.def_damage
              /\ defender_unit'
                   = dyn_receive_damage(defender_unit, strike.att_damage)
              /\ attacker_unit'
                   = dyn_receive_damage(attacker_unit, strike.def_damage)
              /\ Disrupted(cr_result'.combat_events)
                   <=> dyn_calculate_damage(attacker_unit, defender_unit) > 500
      ]_vars

\* the attacker can reach the defender: can_attack of a unit that is
\* neither short of supply nor out of ammunition, which leaves the range
\* and the domain (a bomber against an airborne target) to decide
Reaches(a, d) ==
    dyn_can_attack([a EXCEPT !.supply_level = 1000, !.ammunition = 1], d)

\* the cases the claim lists for InvalidAttack
Unfit(a, d) ==
    \/ a.status # "Active"
    \/ d.status # "Active"
    \/ a.ammunition <= 0
    \/ ~Reaches(a, d)

\* the step is a resolve_combat call
ResolveCall == cr_op'.name = "resolve_combat"

\* the call returned InvalidAttack, changed neither unit and emitted nothing
Rejected ==
    /\ cr_result'.status = "InvalidAttack"
    /\ cr_result'.combat_events = <<>>
    /\ UNCHANGED <<attacker_unit, defender_unit, combat_log>>

Rebuilt ==
    /\ result = "Ok"
    /\ \/ op \in {"next_turn", "mine_road"}
       \/ op = "bomb_road" /\ \E r \in RoadIds : roads[r].condition < 200

\* hub c can supply unit u as the specification states it: within range,
\* every road across the line usable, and no Active or Entrenched unit of
\* another faction than u's within the buffer of the line
Suppliable(c, u) ==
    LET hub == City[c]
        unit == units[u]
        line == from_points(hub.x, hub.y, unit.x, unit.y)
    IN  /\ DistSq(hub.x, hub.y, unit.x, unit.y)
              <= DEFAULT_SUPPLY_RANGE * DEFAULT_SUPPLY_RANGE
        /\ \A r \in get_roads_between(roads, hub.x, hub.y, unit.x, unit.y) :
               roads[r].condition >= 200 /\ ~roads[r].is_mined
        /\ ~\E e \in UnitIds :
               /\ UnitSpec[e].faction # UnitSpec[u].faction
               /\ units[e].status \in {"Active", "Entrenched"}
               /\ contains_with_buffer(line, units[e].x, units[e].y, 50)

\* C21: after a recomputation of the supply network a unit is in a hub's
\* connected set exactly when the hub is within range, every road across
\* the line is usable and no Active or Entrenched enemy unit is within the
\* buffer of the line; the unit itself and friendly units never block.
C21_SuppliableIff ==
    Rebuilt =>
        \A c \in CityIds, u \in UnitIds :
            u \in supply_network[c] <=> Suppliable(c, u)

\* a step whose call rebuilt the supply network
Rebuilds ==
    /\ result' = "Ok"
    /\ \/ op' \in {"next_turn", "mine_road"}
       \/ op' = "bomb_road" /\ \E r \in RoadIds : roads'[r].condition < 200

\* C22: a recomputation of the supply network leaves, for every hub, the
\* units that can be supplied from it now, whatever the network held
\* before; run again with no unit or road changed, it yields the same
\* connected sets.
C22_RebuildIdempotent ==
    [][Rebuilds =>
          /\ supply_network' =
                [c \in CityIds |->
                    {u \in UnitIds : can_supply_unit(units', roads', c, u)}]
          /\ (Rebuilt /\ units' = units /\ roads' = roads)
                 => supply_network' = supply_network]_vars

\* the network has been rebuilt twice in a row, by the ends of two turns,
\* and connects units
C22_Witness ==
    /\ op = "next_turn"
    /\ turn = 3
    /\ event_history.len = 2
    /\ \E c \in CityIds : supply_network[c] # {}

\* a mined road lies across the line from hub c to unit u
Cut(rs, us, c, u) ==
    \E r \in get_roads_between(rs, City[c].x, City[c].y, us[u].x, us[u].y) :
        rs[r].is_mined

\* C23: a unit in a hub's connected set is out of it when a mine_road that
\* mines the road across its line has returned, and a unit that is out
\* stays out for as long as a mined road lies across its line.
C23_MinedRoadCuts ==
    [][\A c \in CityIds \cap DOMAIN supply_network, u \in UnitIds :
          /\ (/\ op' = "mine_road"
              /\ result' = "Ok"
              /\ u \in supply_network[c]
              /\ Cut(roads', units', c, u))
                 => u \notin supply_network'[c]
          /\ (/\ Cut(roads, units, c, u)
              /\ Cut(roads', units', c, u)
              /\ u \notin supply_network[c])
                 => u \notin supply_network'[c]]_vars

\* mine_road has returned after an end of turn, and a unit that nothing
\* but the mine keeps from a hub is out of the hub's connected set
C23_Witness ==
    /\ op = "mine_road"
    /\ result = "Ok"
    /\ turn = 2
    /\ \A e \in UnitIds : ~can_block_supply(units[e])
    /\ \E c \in CityIds, u \in UnitIds :
          /\ Cut(roads, units, c, u)
          /\ \A r \in RoadIds : roads[r].condition >= 200
          /\ DistSq(City[c].x, City[c].y, units[u].x, units[u].y)
                <= DEFAULT_SUPPLY_RANGE * DEFAULT_SUPPLY_RANGE
          /\ u \notin supply_network[c]

\* the supply network a full rebuild gives from the units us and roads rs
RebuiltFrom(us, rs) ==
    [c \in CityIds |-> {u \in UnitIds : can_supply_unit(us, rs, c, u)}]

\* C24: when a bomb_road or a mine_road call has succeeded, the stored
\* supply network equals a full rebuild from the current units and roads,
\* whatever the damage and the condition the road is left with.
C24_RoadCallsRebuild ==
    [][(op' \in {"bomb_road", "mine_road"} /\ result' = "Ok")
          => supply_network' = RebuiltFrom(units', roads')]_vars

\* a step in which a facade call changed what the caches are computed
\* from: a move_unit that changed a position, or an attack_unit that left
\* a unit Destroyed or Disabled
ChangesUnits ==
    /\ result' = "Ok"
    /\ \/ /\ op' = "move_unit"
          /\ \E u \in UnitIds :
                <<units'[u].x, units'[u].y>> # <<units[u].x, units[u].y>>
       \/ /\ op' = "attack_unit"
          /\ \E u \in UnitIds :
                /\ units'[u].status # units[u].status
                /\ units'[u].status \in {"Destroyed", "Disabled"}

\* C25: when a facade call has changed a unit's position or destroyed or
\* disabled a unit, the supply network and the visibility layer the
\* queries read equal a full recomputation from the new state.
C25_CachesFollowUnits ==
    [][ChangesUnits =>
          /\ supply_network' = RebuiltFrom(units', roads')
          /\ visibility_map' =
                update_visibility(units', weather', time_of_day')]_vars

\* ------------------------------------------------------------------------
\* Properties of the roads
\* ------------------------------------------------------------------------
\* C26: after any bomb_road, with any damage, every road's condition lies
\* within [0, 1]; a bomb_road never raises a condition; and a road id that
\* does not exist yields RoadNotFound and changes nothing.
C26_ConditionInRange ==
    [][/\ \A r \in RoadIds :
             roads'[r].condition >= 0 /\ roads'[r].condition <= 1000
       /\ op' = "bomb_road" =>
             \A r \in RoadIds : roads'[r].condition <= roads[r].condition
       /\ \A dmg \in BombDamages :
             bomb_road(NoRoad, dmg) =>
                 result' = "RoadNotFound" /\ UNCHANGED gameState]_vars

\* ------------------------------------------------------------------------
\* Properties of the victory evaluation
\* ------------------------------------------------------------------------
\* some faction has lost a unit
AnyCasualties == \E f \in Factions : statistics.units_lost[f] > 0

\* some faction that controls cities controls the required fraction of the
\* key cities, as the specification states the condition
KeyCitiesHeld(controller) ==
    \E f \in Factions :
        /\ \E c \in CityIds : controller[c] = f
        /\ controls_key_cities(cities_of(controller), f)

\* the casualties of some faction exceed the configured fraction of its
\* unit pool, living plus lost, as the specification states the condition
CasualtiesExceed ==
    \E f \in Factions :
        statistics.units_lost[f] * 1000
            > victory_conditions.enemy_casualties_threshold
                  * (count_faction_units(f) + statistics.units_lost[f])

C28_CanonicalPredicate ==
    \A controller \in Controllers :
        is_over(cities_of(controller))
            <=> \/ turn >= victory_conditions.turn_limit
                \/ KeyCitiesHeld(controller)
                \/ CasualtiesExceed

\* C29: get_winner() returns no winner in every state where is_over() is
\* false, and in no state is is_over() true through the city control or
\* the casualty condition while get_winner() returns no winner.
C29_WinnerWhenOver ==
    \A controller \in Controllers :
        LET cities == cities_of(controller)
        IN  /\ ~is_over(cities) => get_winner(cities) = {"None"}
            /\ (\/ \E faction \in DOMAIN controlled_territories :
                      controls_key_cities(cities, faction)
                \/ \E faction \in DOMAIN statistics.units_lost :
                      casualties_reached(faction))
                  => "None" \notin get_winner(cities)

\* ------------------------------------------------------------------------
\* Properties of the casualty statistics
\* ------------------------------------------------------------------------
\* the units of faction f that are Destroyed among us
DestroyedOf(us, f) ==
    {u \in UnitIds : UnitSpec[u].faction = f /\ us[u].status = "Destroyed"}

\* C30: after any sequence of attack_unit calls units_lost[f] is the
\* number of units of faction f that are Destroyed, and an attack that
\* destroys no unit leaves units_lost unchanged.
C30_CasualtiesCountedOnce ==
    [][/\ \A f \in Factions :
             statistics'.units_lost[f] = Cardinality(DestroyedOf(units', f))
       /\ (/\ op' = "attack_unit"
           /\ result' = "Ok"
           /\ \A f \in Factions : DestroyedOf(units', f) = DestroyedOf(units, f))
              => statistics'.units_lost = statistics.units_lost]_vars

\* ------------------------------------------------------------------------
\* Properties of repair and resupply
\* ------------------------------------------------------------------------
\* the unit stands within DEFAULT_SUPPLY_RANGE of some facility (the
\* scenario has cities only, no ports or airbases)
NearFacility(unit) ==
    \E c \in CityIds :
        DistSq(unit.x, unit.y, City[c].x, City[c].y)
            < DEFAULT_SUPPLY_RANGE * DEFAULT_SUPPLY_RANGE

\* C31: repair_unit succeeds only for a unit within range of a facility
\* whose supply_level is at least 0.5; with supply_level below 0.5 it fails
\* with InsufficientSupplies, with no facility near it fails, and a failed
\* call leaves the units as they were
C31_RepairRequirements ==
    [][\A u \in UnitIds :
          (repair_unit_a(u) \/ repair_unit_b(u)) =>
              /\ result' = "Ok" =>
                    NearFacility(units[u]) /\ units[u].supply_level >= 500
              /\ ~NearFacility(units[u]) => result' # "Ok"
              /\ (NearFacility(units[u]) /\ units[u].supply_level < 500
                    /\ units[u].status # "Destroyed")
                    => result' = "InsufficientSupplies"
              /\ result' # "Ok" => units' = units]_vars

\* the unit stands beyond the max supply range of every hub
OutOfSupplyRange(unit) ==
    \A c \in CityIds :
        DistSq(unit.x, unit.y, City[c].x, City[c].y)
            > DEFAULT_SUPPLY_RANGE * DEFAULT_SUPPLY_RANGE

\* C32: for a unit beyond the max supply range of every hub the
\* supply_level does not rise over an end of turn, and while it is below
\* 0.5 every repair_unit call on the unit is refused and changes nothing
C32_UnsuppliedUnitDecays ==
    [][\A u \in UnitIds :
          OutOfSupplyRange(units[u]) =>
              /\ (\E roll \in BOOLEAN, drawn \in Weather :
                      next_turn(roll, drawn))
                    => units'[u].supply_level <= units[u].supply_level
              /\ (units[u].supply_level < 500
                    /\ (repair_unit_a(u) \/ repair_unit_b(u)))
                    => result' # "Ok" /\ units' = units]_vars

\* a unit beyond every hub, below 0.5 after an end of turn, has been
\* refused a repair for lack of supplies
C32_Witness ==
    /\ turn > 1
    /\ op = "repair_unit"
    /\ result = "InsufficientSupplies"
    /\ OutOfSupplyRange(units[1])
    /\ units[1].supply_level < 500

\* the hubs that can supply the unit now
ViableSources(u) ==
    {c \in CityIds : City[c].storage > 0 /\ can_supply_unit(units, roads, c, u)}

\* the viable hubs nearest to the unit
NearestViable(u) ==
    {c \in ViableSources(u) :
        \A d \in ViableSources(u) :
            DistSq(units[u].x, units[u].y, City[c].x, City[c].y)
                <= DistSq(units[u].x, units[u].y, City[d].x, City[d].y)}

\* C33: resupply_unit succeeds only with a hub that can supply the unit now
\* (within the max supply range, supply line clear), the amount is the one
\* of the nearest such hub, and when no hub can supply the unit the call
\* fails and leaves the units and the supply-consumed statistic unchanged
C33_ResupplyFromViableSource ==
    [][\A u \in UnitIds :
          (resupply_unit_a(u) \/ resupply_unit_b(u)) =>
              /\ result' = "Ok" =>
                    \E c \in NearestViable(u) :
                        statistics'.supply_consumed =
                            statistics.supply_consumed
                                + calculate_supply_amount(u, c)
              /\ ViableSources(u) = {} =>
                    /\ result' # "Ok"
                    /\ units' = units
                    /\ statistics' = statistics]_vars

\* a unit beyond the max supply range of every hub has been resupplied
C33_OutOfRangeResupplied ==
    /\ op = "resupply_unit"
    /\ result = "Ok"
    /\ OutOfSupplyRange(units[1])
    /\ units[1].ammunition > 10
    /\ statistics.supply_consumed > 0

\* C34: the supply amount of a resupply is never negative, whatever the
\* storage of the source, the distance and the weather: no resupply_unit
\* call lowers the supply-consumed statistic or the ammunition, fuel or
\* supplies of a unit
C34_SupplyAmountFloored ==
    [][\A u \in UnitIds :
          ((resupply_unit_a(u) \/ resupply_unit_b(u)) /\ result' = "Ok") =>
              /\ \A c \in find_nearest_supply_source(u) :
                    calculate_supply_amount(u, c) >= 0
              /\ statistics'.supply_consumed >= statistics.supply_consumed
              /\ units'[u].ammunition >= units[u].ammunition
              /\ units'[u].fuel >= units[u].fuel
              /\ units'[u].supplies >= units[u].supplies]_vars

\* ------------------------------------------------------------------------
\* Properties of visibility and of the unit queries
\* ------------------------------------------------------------------------
\* the tile's centre lies within the vision radius of a unit that is not
\* Destroyed, in the weather and at the time of day of the recomputation
SeenByActiveUnit(index) ==
    \E u \in DOMAIN units :
        /\ units[u].status # "Destroyed"
        /\ index \in get_tiles_in_range(units[u].x, units[u].y,
                        calculate_vision_range(u, weather, time_of_day))

\* C35: the recomputation of the visibility at the end of a turn leaves a
\* flag for every tile, and the flag is set if and only if the tile's
\* centre lies within the vision radius of at least one unit that is not
\* Destroyed; nothing stays visible from an earlier computation
C35_VisibleIffSeenByActive ==
    [][(\E roll \in BOOLEAN, drawn \in Weather : next_turn(roll, drawn)) =>
          /\ DOMAIN visibility_map' = DOMAIN Tiles
          /\ \A index \in DOMAIN Tiles :
                visibility_map'[index] <=> SeenByActiveUnit(index)]_vars

\* C36: a Destroyed unit is left out of the active queries and kept for
\* the statistics: get_units_in_range never returns its id, whatever the
\* point and the range, it is never counted as blocking a supply line,
\* and get_unit still returns its record
C36_DestroyedExcludedButKept ==
    \A u \in DOMAIN units :
        units[u].status = "Destroyed" =>
            /\ \A d \in Dests, range \in {5, 50, 200} :
                    u \notin get_units_in_range(d[1], d[2], range)
            /\ ~can_block_supply(units[u])
            /\ get_unit(u) = {units[u]}

C37_MovedStillEntrenched ==
    /\ op = "move_unit"
    /\ result = "Ok"
    /\ units[1].entrenchment > 0
    /\ <<units[1].x, units[1].y>> = <<3, 4>>

\* the points distances are taken between: where the units and the cities
\* stand, and the points (0,0) and (3,4)
Points ==
    {<<units[u].x, units[u].y>> : u \in DOMAIN units}
        \cup {<<City[c].x, City[c].y>> : c \in CityIds}
        \cup {<<0, 0>>, <<3, 4>>}

\* C38: calculate_distance is the Euclidean distance of its two points: 5
\* for (0,0) and (3,4), 0 for identical points, the same in both
\* directions, and d for every pair of points d apart, d a whole number
C38_DistanceEuclidean ==
    /\ calculate_distance(0, 0, 3, 4) = 5
    /\ \A p \in Points, q \in Points :
          /\ calculate_distance(p[1], p[2], q[1], q[2])
                = calculate_distance(q[1], q[2], p[1], p[2])
          /\ p = q => calculate_distance(p[1], p[2], q[1], q[2]) = 0
          /\ \A d \in 0..MaxDistance :
                d * d = DistSq(p[1], p[2], q[1], q[2])
                    => calculate_distance(p[1], p[2], q[1], q[2]) = d

\* a unit 50 km from Taipei has been resupplied with the amount of that
\* distance
C38_Witness ==
    /\ op = "resupply_unit"
    /\ result = "Ok"
    /\ weather = "Clear"
    /\ <<units[1].x, units[1].y>> = <<30, 40>>
    /\ calculate_distance(units[1].x, units[1].y, City[1].x, City[1].y) = 50
    /\ statistics.supply_consumed = 950

\* ------------------------------------------------------------------------
\* Properties of the turn structure of a game
\* ------------------------------------------------------------------------
\* C39: next_turn increments the turn only from the EndTurn phase, so that
\* no turn completes without the game having passed through Movement,
\* Combat and Supply
C39_TurnEndsFromEndTurn ==
    [][turn' # turn => phase = "EndTurn"]_vars

\* what a new game driven through the facade does instead: the phase is
\* Planning in every state, and no move_unit ever succeeds
C39_PhaseStaysPlanning ==
    /\ phase = "Planning"
    /\ ~(op = "move_unit" /\ result = "Ok")

\* C40: the turn never decreases, is_over() once true stays true, and when
\* turns keep being completed a state with is_over() true is reached, after
\* which it is true for good, whoever controls the cities
C40_GameEnds ==
    /\ [][turn' >= turn]_vars
    /\ [][\A controller \in Controllers :
            is_over(cities_of(controller))
                => is_over(cities_of(controller))']_vars
    /\ <>[](\A controller \in Controllers : is_over(cities_of(controller)))

\* the turn limit has been reached by completing turns and ends a game in
\* which no faction has casualties
C40_Witness ==
    /\ turn = victory_conditions.turn_limit
    /\ op = "next_turn"
    /\ ~AnyCasualties
    /\ is_over(City)

====
